---- MODULE Spec2Model ----
(***************************************************************************)
(* Model of the RAG support layer of src/server.js (the second, enhanced   *)
(* copy of the server, lines 822-2192): the in-memory chunk store, the     *)
(* training example registry, the embedding provider with its keyword      *)
(* fallback, the similarity ranker and the request handlers around them.   *)
(*                                                                         *)
(* Node runs one handler at a time; a handler gives up control only at an  *)
(* await on real I/O (the axios calls).  One action of the model is one    *)
(* such run-to-next-I/O segment of a handler.                              *)
(*                                                                         *)
(* Strings are modelled by what the code reads of them: the keyword-       *)
(* bearing words they contain, their length in characters and their        *)
(* leading/trailing whitespace.  Floating point numbers are modelled by    *)
(* exact rationals (cosines by signed square roots of rationals).          *)
(***************************************************************************)
EXTENDS Integers, Sequences, FiniteSets, TLC

(***************************************************************************)
(* Bounds of the model                                                     *)
(***************************************************************************)
\* number of requests that may be in flight at the same time
MaxInFlight == 2
\* total number of requests issued in one behaviour
MaxCalls == 3
\* dimension of the vectors the remote embedding service returns
RemoteDim == 2
\* largest number of learning samples the progress report is computed for
MaxSamples == 60
\* number of remote calls (embedding or generation) that do not succeed
MaxFailures == 1

\* number of sentences of the texts given to splitIntoChunks on its own
MaxSentences == 3

\* number of words of the texts given to generateKeywordVector on its own
MaxWords == 2

\* number of tokens of the short texts given to extractKeywords on its own
MaxTokens == 3
MaxChunks == 3
MaxTimers == 102

Reqs == 1..MaxInFlight

(***************************************************************************)
(* Strings                                                                 *)
(***************************************************************************)
\* a string: words (keyword-bearing tokens, in order), len (characters),
\* lead/trail (leading / trailing whitespace characters)
Str(words, len, lead, trail) ==
    [words |-> words, len |-> len, lead |-> lead, trail |-> trail]

EmptyStr == Str(<<>>, 0, 0, 0)

\* s.trim().length
TrimLen(s) == IF s.len - s.lead - s.trail > 0 THEN s.len - s.lead - s.trail ELSE 0

\* s.trim()
Trim(s) == Str(s.words, TrimLen(s), 0, 0)

\* a + b
Concat(a, b) ==
    Str(a.words \o b.words, a.len + b.len,
        IF a.len = 0 THEN b.lead ELSE a.lead,
        IF b.len = 0 THEN a.trail ELSE b.trail)

\* the literal '. ' appended after every sentence of a chunk
DotSpace == Str(<<>>, 2, 0, 1)

(***************************************************************************)
(* Embedding provider                                                      *)
(***************************************************************************)
keywords ==
    << "market", "treatment", "physician", "academic", "community", "region",
       "adoption", "preference", "efficacy", "safety", "compliance", "prescribing",
       "competition", "share", "growth", "trend", "segment", "therapeutic",
       "survey", "analysis", "data", "patient", "clinical", "therapy" >>

\* a vector of floats: entry i is vals[i] * num / den; den = 0 stands for the
\* 0/0 = NaN entries of the keyword vector of an empty text
Vector(vals, num, den) == [kind |-> "vector", vals |-> vals, num |-> num, den |-> den]

\* the value JavaScript yields for a missing property
Undefined == [kind |-> "undefined", vals |-> <<>>, num |-> 0, den |-> 0]

\* (lowerText.match(new RegExp(keyword, 'g')) || []).length
Occurrences(keyword, text) ==
    Cardinality({i \in 1..Len(text.words) : text.words[i] = keyword})

\* a variant: one entry per keyword that occurs in the text
generateKeywordVectorSparse(text) ==
    LET Occurs(count) == count > 0
    IN  Vector(SelectSeq([k \in 1..Len(keywords) |-> Occurrences(keywords[k], text)], Occurs),
               1000, text.len)

generateKeywordVector(text) ==
    Vector([k \in 1..Len(keywords) |-> Occurrences(keywords[k], text)], 1000, text.len)

\* outcomes of axios.post to the embeddings endpoint
\*   ok          : 200 with data.data[0].embedding = vec
\*   error       : the promise rejects (network, auth 401, rate limit 429)
\*   nodata      : 200 with a body lacking data / data[0] (TypeError in line 921)
\*   noembedding : 200 with data.data[0] present but lacking embedding
RemoteVectors ==
    { [i \in 1..RemoteDim |-> IF i = 1 THEN 1 ELSE 0] }

RemoteOutcomes ==
    [type : {"ok"}, vec : RemoteVectors]
      \cup [type : {"error", "nodata", "noembedding"}, vec : {<<>>}]

\* no remote call is made: OPENAI_API_KEY is not set (line 906)
NoKey == [type |-> "nokey", vec |-> <<>>]

\* the value generateEmbedding resolves to once the remote call has settled
generateEmbedding(text, outcome) ==
    CASE outcome.type = "ok"          -> Vector(outcome.vec, 1, 1)
      [] outcome.type = "noembedding" -> Undefined
      [] OTHER                        -> generateKeywordVector(text)

(***************************************************************************)
(* Similarity                                                              *)
(***************************************************************************)
\* The common positive factor num / den of a vector cancels in the cosine.
\* a similarity value: the real s * sqrt(n / d), or NaN, or a thrown TypeError
Sim(s, n, d) == [kind |-> "num", s |-> s, n |-> n, d |-> d]
NaN == [kind |-> "NaN", s |-> 0, n |-> 0, d |-> 1]
Throw == [kind |-> "throw", s |-> 0, n |-> 0, d |-> 1]
Zero == Sim(0, 0, 1)

RECURSIVE Dot(_, _, _)
Dot(a, b, i) == IF i = 0 THEN 0 ELSE a[i] * b[i] + Dot(a, b, i - 1)

Sign(x) == IF x > 0 THEN 1 ELSE IF x < 0 THEN -1 ELSE 0

\* a similarity that scores vectors of different lengths as identical
calculateSimilarityLoose(vector1, vector2) ==
    IF vector1.kind = "undefined" \/ vector2.kind = "undefined" THEN Throw
    ELSE IF Len(vector1.vals) # Len(vector2.vals) THEN Sim(1, 1, 1)
    ELSE LET n == Len(vector1.vals)
             dotProduct == Dot(vector1.vals, vector2.vals, n)
             norm1 == Dot(vector1.vals, vector1.vals, n)
             norm2 == Dot(vector2.vals, vector2.vals, n)
         IN  IF vector1.den = 0 \/ vector2.den = 0 THEN NaN
             ELSE IF norm1 * norm2 = 0 THEN NaN
             ELSE Sim(Sign(dotProduct), dotProduct * dotProduct, norm1 * norm2)

calculateSimilarity(vector1, vector2) ==
    IF vector1.kind = "undefined" \/ vector2.kind = "undefined" THEN Throw
    ELSE IF Len(vector1.vals) # Len(vector2.vals) THEN Zero
    ELSE LET n == Len(vector1.vals)
             dotProduct == Dot(vector1.vals, vector2.vals, n)
             norm1 == Dot(vector1.vals, vector1.vals, n)
             norm2 == Dot(vector2.vals, vector2.vals, n)
         IN  IF vector1.den = 0 \/ vector2.den = 0 THEN NaN
             ELSE IF norm1 * norm2 = 0 THEN NaN
             ELSE Sim(Sign(dotProduct), dotProduct * dotProduct, norm1 * norm2)

\* a > b on similarity values (false when either is NaN)
Gt(a, b) ==
    /\ a.kind = "num" /\ b.kind = "num"
    /\ IF a.s # b.s THEN a.s > b.s
       ELSE IF a.s = 1 THEN a.n * b.d > b.n * a.d
       ELSE IF a.s = -1 THEN a.n * b.d < b.n * a.d
       ELSE FALSE

SimEq(a, b) == a.kind = "num" /\ b.kind = "num" /\ ~Gt(a, b) /\ ~Gt(b, a)

(***************************************************************************)
(* Similarity in double precision                                          *)
(***************************************************************************)
\* calculateSimilarity above gives the real number that line 956 denotes.
\* The code computes it in IEEE 754 double precision: Math.sqrt, * and / each
\* round their exact result to the nearest double (ties to even). What
\* follows computes these roundings on vectors of small integers, whose
\* products and sums are exact.
\*
\* A natural number below 2^117 is a sequence of Limbs digits in base LimbBase,
\* least significant first.
LimbBits == 13
LimbBase == 2 ^ LimbBits
Limbs == 9

Big(n) == [i \in 1..Limbs |-> IF i = 1 THEN n ELSE 0]

Pow2(k) == [i \in 1..Limbs |-> IF i = (k \div LimbBits) + 1 THEN 2 ^ (k % LimbBits) ELSE 0]

\* the digits of the number whose i-th column holds cols[i]
RECURSIVE Propagate(_, _, _)
Propagate(cols, i, carry) ==
    IF i > Limbs THEN <<>>
    ELSE <<(cols[i] + carry) % LimbBase>>
           \o Propagate(cols, i + 1, (cols[i] + carry) \div LimbBase)

BigAdd(a, b) == Propagate([i \in 1..Limbs |-> a[i] + b[i]], 1, 0)

RECURSIVE Column(_, _, _, _)
Column(a, b, k, i) ==
    IF i = 0 THEN 0 ELSE a[i] * b[k + 1 - i] + Column(a, b, k, i - 1)

\* a * b, for a * b < 2^117
BigMul(a, b) == Propagate([k \in 1..Limbs |-> Column(a, b, k, k)], 1, 0)

\* a <= b
RECURSIVE BigLeFrom(_, _, _)
BigLeFrom(a, b, i) ==
    IF i = 0 THEN TRUE
    ELSE IF a[i] # b[i] THEN a[i] < b[i]
    ELSE BigLeFrom(a, b, i - 1)

BigLe(a, b) == BigLeFrom(a, b, Limbs)

\* number of binary digits of a > 0
BitLength(a) ==
    LET top == CHOOSE i \in 1..Limbs : a[i] # 0 /\ \A j \in (i + 1)..Limbs : a[j] = 0
        len == CHOOSE k \in 1..LimbBits : 2 ^ (k - 1) <= a[top] /\ a[top] < 2 ^ k
    IN  (top - 1) * LimbBits + len

Limb(a, j) == IF j \in 1..Limbs THEN a[j] ELSE 0

\* floor(a / 2^k)
ShiftRight(a, k) ==
    LET q == k \div LimbBits
        r == k % LimbBits
    IN  [i \in 1..Limbs |->
            (Limb(a, i + q) \div 2 ^ r) + (Limb(a, i + q + 1) % 2 ^ r) * 2 ^ (LimbBits - r)]

\* a * 2^k, for a * 2^k < 2^117
ShiftLeft(a, k) ==
    LET q == k \div LimbBits
        r == k % LimbBits
    IN  [i \in 1..Limbs |->
            (Limb(a, i - q) % 2 ^ (LimbBits - r)) * 2 ^ r
              + (Limb(a, i - q - 1) \div 2 ^ (LimbBits - r))]

\* a mod 2^k
LowBits(a, k) ==
    LET q == k \div LimbBits
        r == k % LimbBits
    IN  [i \in 1..Limbs |->
            IF i <= q THEN a[i] ELSE IF i = q + 1 THEN a[i] % 2 ^ r ELSE 0]

\* a double: 0, NaN, or sign * m * 2^e with 2^52 <= m < 2^53
Double(sign, m, e) == [kind |-> "double", sign |-> sign, m |-> m, e |-> e]
DoubleZero == [kind |-> "zero", sign |-> 0, m |-> Big(0), e |-> 0]
DoubleNaN == [kind |-> "NaN", sign |-> 0, m |-> Big(0), e |-> 0]

\* the double nearest to sign * (M + s) * 2^e, where M > 0 is an integer and
\* 0 <= s < 1 is zero exactly if sticky is 0; M has at least 55 binary
\* digits when sticky is 1
Round(sign, M, sticky, e) ==
    LET nb == BitLength(M) IN
    IF nb <= 53 THEN Double(sign, ShiftLeft(M, 53 - nb), e - (53 - nb))
    ELSE LET k    == nb - 53
             q    == ShiftRight(M, k)
             rem  == LowBits(M, k)
             half == Pow2(k - 1)
             up   == IF rem = half THEN sticky = 1 \/ q[1] % 2 = 1
                     ELSE ~BigLe(rem, half)
             q1   == IF up THEN BigAdd(q, Big(1)) ELSE q
         IN  IF q1 = Pow2(53) THEN Double(sign, Pow2(52), e + k + 1)
             ELSE Double(sign, q1, e + k)

\* the greatest r' >= r built from r by setting bits b, b-1, .. 0 with r' * r' <= N
RECURSIVE SqrtSearch(_, _, _)
SqrtSearch(N, r, b) ==
    IF b < 0 THEN r
    ELSE IF BigLe(BigMul(BigAdd(r, Pow2(b)), BigAdd(r, Pow2(b))), N)
         THEN SqrtSearch(N, BigAdd(r, Pow2(b)), b - 1)
         ELSE SqrtSearch(N, r, b - 1)

\* Math.sqrt(n) for an integer 0 <= n < 32
MathSqrt(n) ==
    IF n = 0 THEN DoubleZero
    ELSE LET N == ShiftLeft(Big(n), 108)
             M == SqrtSearch(N, Big(0), 56)
         IN  Round(1, M, IF BigMul(M, M) = N THEN 0 ELSE 1, -54)

\* x * y for doubles x, y >= 0
Times(x, y) ==
    IF x.kind = "zero" \/ y.kind = "zero" THEN DoubleZero
    ELSE Round(1, BigMul(x.m, y.m), 0, x.e + y.e)

\* the greatest q' >= q built from q by setting bits b, b-1, .. 0 with q' * m <= N
RECURSIVE DivSearch(_, _, _, _)
DivSearch(N, m, q, b) ==
    IF b < 0 THEN q
    ELSE IF BigLe(BigMul(BigAdd(q, Pow2(b)), m), N)
         THEN DivSearch(N, m, BigAdd(q, Pow2(b)), b - 1)
         ELSE DivSearch(N, m, q, b - 1)

\* d / y for an integer -32 < d < 32 and a double y >= 0
Over(d, y) ==
    IF y.kind = "zero" THEN DoubleNaN
    ELSE IF d = 0 THEN DoubleZero
    ELSE LET N == ShiftLeft(Big(IF d < 0 THEN -d ELSE d), 109)
             q == DivSearch(N, y.m, Big(0), 61)
         IN  Round(Sign(d), q, IF BigMul(q, y.m) = N THEN 0 ELSE 1, -109 - y.e)

\* calculateSimilarity on two arrays of small integers
calculateSimilarityDouble(vector1, vector2) ==
    IF Len(vector1) # Len(vector2) THEN DoubleZero
    ELSE LET n == Len(vector1)
             dotProduct == Dot(vector1, vector2, n)
             norm1 == Dot(vector1, vector1, n)
             norm2 == Dot(vector2, vector2, n)
         IN  Over(dotProduct, Times(MathSqrt(norm1), MathSqrt(norm2)))

(***************************************************************************)
(* Chunker                                                                 *)
(***************************************************************************)
\* A text is the sequence text.split(/[.!?]+/) yields: its sentences.
RECURSIVE FilterSentences(_)
FilterSentences(sentences) ==
    IF sentences = <<>> THEN <<>>
    ELSE IF TrimLen(Head(sentences)) > 0
         THEN <<Head(sentences)>> \o FilterSentences(Tail(sentences))
         ELSE FilterSentences(Tail(sentences))

\* a variant: chunks are pushed without the test currentChunk.trim()
RECURSIVE SplitLoopUnguarded(_, _, _, _)
SplitLoopUnguarded(sentences, currentChunk, chunks, maxChunkSize) ==
    IF sentences = <<>>
    THEN Append(chunks, Trim(currentChunk))
    ELSE LET sentence == Head(sentences) IN
         IF currentChunk.len + sentence.len < maxChunkSize
         THEN SplitLoopUnguarded(Tail(sentences),
                                 Concat(currentChunk, Concat(sentence, DotSpace)),
                                 chunks, maxChunkSize)
         ELSE SplitLoopUnguarded(Tail(sentences), Concat(sentence, DotSpace),
                                 Append(chunks, Trim(currentChunk)), maxChunkSize)

\* a variant: the chunk under construction when the sentences run out is dropped
RECURSIVE SplitLoopNoTail(_, _, _, _)
SplitLoopNoTail(sentences, currentChunk, chunks, maxChunkSize) ==
    IF sentences = <<>>
    THEN chunks
    ELSE LET sentence == Head(sentences) IN
         IF currentChunk.len + sentence.len < maxChunkSize
         THEN SplitLoopNoTail(Tail(sentences),
                              Concat(currentChunk, Concat(sentence, DotSpace)),
                              chunks, maxChunkSize)
         ELSE SplitLoopNoTail(Tail(sentences), Concat(sentence, DotSpace),
                              IF TrimLen(currentChunk) > 0
                              THEN Append(chunks, Trim(currentChunk)) ELSE chunks,
                              maxChunkSize)

\* a variant: a sentence is appended whenever the current chunk is below the size
RECURSIVE SplitLoopGreedy(_, _, _, _)
SplitLoopGreedy(sentences, currentChunk, chunks, maxChunkSize) ==
    IF sentences = <<>>
    THEN IF TrimLen(currentChunk) > 0 THEN Append(chunks, Trim(currentChunk)) ELSE chunks
    ELSE LET sentence == Head(sentences) IN
         IF currentChunk.len < maxChunkSize
         THEN SplitLoopGreedy(Tail(sentences),
                              Concat(currentChunk, Concat(sentence, DotSpace)),
                              chunks, maxChunkSize)
         ELSE SplitLoopGreedy(Tail(sentences), Concat(sentence, DotSpace),
                              IF TrimLen(currentChunk) > 0
                              THEN Append(chunks, Trim(currentChunk)) ELSE chunks,
                              maxChunkSize)

\* the for loop of splitIntoChunks and the trailing push
RECURSIVE SplitLoop(_, _, _, _)
SplitLoop(sentences, currentChunk, chunks, maxChunkSize) ==
    IF sentences = <<>>
    THEN IF TrimLen(currentChunk) > 0 THEN Append(chunks, Trim(currentChunk)) ELSE chunks
    ELSE LET sentence == Head(sentences) IN
         IF currentChunk.len + sentence.len < maxChunkSize
         THEN SplitLoop(Tail(sentences), Concat(currentChunk, Concat(sentence, DotSpace)),
                        chunks, maxChunkSize)
         ELSE SplitLoop(Tail(sentences), Concat(sentence, DotSpace),
                        IF TrimLen(currentChunk) > 0
                        THEN Append(chunks, Trim(currentChunk)) ELSE chunks,
                        maxChunkSize)

splitIntoChunks(text, maxChunkSize) ==
    SplitLoop(FilterSentences(text), EmptyStr, <<>>, maxChunkSize)

\* the chunk size processDocument passes to splitIntoChunks
ChunkSize == 500

(***************************************************************************)
(* Keyword extraction                                                      *)
(***************************************************************************)
\* A text is the sequence of tokens that
\* text.toLowerCase().replace(/[^\w\s]/g, ' ').split(/\s+/) yields. A token has
\* its characters (word), their number (length), and index: the number it
\* denotes when it is the canonical decimal form of an integer below 2^32 - 1
\* (such property names are array indices), and -1 otherwise.
Token(word, length, index) == [word |-> word, length |-> length, index |-> index]

\* .filter(word => word.length > 3)
LongWords(tokens) ==
    LET IsLong(t) == t.length > 3 IN SelectSeq(tokens, IsLong)

\* wordCount[word] once forEach has run
WordCount(words, word) == Cardinality({i \in DOMAIN words : words[i] = word})

\* the property names of wordCount in the order forEach creates them
RECURSIVE Created(_, _)
Created(words, n) ==
    IF n = 0 THEN <<>>
    ELSE IF \E i \in 1..(n - 1) : words[i] = words[n]
         THEN Created(words, n - 1)
         ELSE Append(Created(words, n - 1), words[n])

\* the array indices among names, in ascending numeric order
RECURSIVE Ascending(_)
Ascending(names) ==
    IF names = {} THEN <<>>
    ELSE LET least == CHOOSE t \in names : \A u \in names : t.index <= u.index
         IN  <<least>> \o Ascending(names \ {least})

\* Object.keys(wordCount): array indices first, in ascending numeric order,
\* then the other names in the order of their creation
ObjectKeys(words) ==
    LET created == Created(words, Len(words))
        IsIndex(t) == t.index >= 0
        IsName(t)  == t.index < 0
    IN  Ascending({created[i] : i \in {j \in DOMAIN created : IsIndex(created[j])}})
          \o SelectSeq(created, IsName)

\* Array.prototype.sort with (a, b) => wordCount[b] - wordCount[a]: stable
RECURSIVE SortByCount(_, _, _)
SortByCount(keys, n, words) ==
    IF n = 0 THEN <<>>
    ELSE LET sorted == SortByCount(keys, n - 1, words)
             count  == WordCount(words, keys[n])
             before == Cardinality({i \in DOMAIN sorted :
                                       WordCount(words, sorted[i]) >= count})
         IN  SubSeq(sorted, 1, before) \o <<keys[n]>>
               \o SubSeq(sorted, before + 1, Len(sorted))

extractKeywords(text) ==
    LET words  == LongWords(text)
        keys   == ObjectKeys(words)
        sorted == SortByCount(keys, Len(keys), words)
    IN  SubSeq(sorted, 1, IF Len(sorted) < 10 THEN Len(sorted) ELSE 10)

(***************************************************************************)
(* Similarity ranker                                                       *)
(***************************************************************************)
\* { ...doc, similarity: s }
ScoredChunk(doc, s) ==
    [f \in (DOMAIN doc) \cup {"similarity"} |-> IF f = "similarity" THEN s ELSE doc[f]]

\* documentStore.map(doc => ({...doc, similarity: calculateSimilarity(q, doc.embedding)}))
Similarities(store, queryEmbedding) ==
    [i \in 1..Len(store) |->
        ScoredChunk(store[i], calculateSimilarity(queryEmbedding, store[i].embedding))]

\* the map throws as soon as one calculateSimilarity call throws
ScoringThrows(store, queryEmbedding) ==
    \E i \in 1..Len(store) :
        calculateSimilarity(queryEmbedding, store[i].embedding).kind = "throw"

\* a variant: .filter(doc => !(doc.similarity <= threshold))
RECURSIVE FilterNotBelow(_, _)
FilterNotBelow(docs, threshold) ==
    IF docs = <<>> THEN <<>>
    ELSE IF Head(docs).similarity.kind = "NaN" \/ Gt(Head(docs).similarity, threshold)
         THEN <<Head(docs)>> \o FilterNotBelow(Tail(docs), threshold)
         ELSE FilterNotBelow(Tail(docs), threshold)

\* .filter(doc => doc.similarity > threshold)
RECURSIVE FilterAbove(_, _)
FilterAbove(docs, threshold) ==
    IF docs = <<>> THEN <<>>
    ELSE IF Gt(Head(docs).similarity, threshold)
         THEN <<Head(docs)>> \o FilterAbove(Tail(docs), threshold)
         ELSE FilterAbove(Tail(docs), threshold)

RECURSIVE InsertSortedUnstable(_, _)
\* an unstable sort: doc goes before the elements it ties with
InsertSortedUnstable(sorted, doc) ==
    IF sorted = <<>> THEN <<doc>>
    ELSE IF ~Gt(Head(sorted).similarity, doc.similarity)
         THEN <<doc>> \o sorted
         ELSE <<Head(sorted)>> \o InsertSortedUnstable(Tail(sorted), doc)

\* insertion of doc into a sequence sorted by descending similarity, after
\* every element that does not compare below it (Array.prototype.sort is stable)
RECURSIVE InsertSorted(_, _)
InsertSorted(sorted, doc) ==
    IF sorted = <<>> THEN <<doc>>
    ELSE IF Gt(doc.similarity, Head(sorted).similarity)
         THEN <<doc>> \o sorted
         ELSE <<Head(sorted)>> \o InsertSorted(Tail(sorted), doc)

\* .sort((a, b) => b.similarity - a.similarity)
RECURSIVE SortDescending(_)
SortDescending(docs) ==
    IF docs = <<>> THEN <<>>
    ELSE InsertSorted(SortDescending(SubSeq(docs, 1, Len(docs) - 1)), docs[Len(docs)])

\* .slice(0, limit) for limit >= 0
Slice(docs, limit) == SubSeq(docs, 1, IF limit < Len(docs) THEN limit ELSE Len(docs))

\* lines 1046-1049
RelevantDocs(store, queryEmbedding, threshold, limit) ==
    Slice(SortDescending(FilterAbove(Similarities(store, queryEmbedding), threshold)), limit)

(***************************************************************************)
(* Request parameters                                                      *)
(***************************************************************************)
Digits == <<"0", "1", "2", "3", "4", "5", "6", "7", "8", "9">>
IsDigit(c) == \E d \in 1..10 : Digits[d] = c
DigitVal(c) == (CHOOSE d \in 1..10 : Digits[d] = c) - 1

RECURSIVE DigitPrefix(_, _)
\* value of the longest prefix of digits of chars, continuing from acc
DigitPrefix(chars, acc) ==
    IF chars = <<>> \/ ~IsDigit(Head(chars)) THEN acc
    ELSE DigitPrefix(Tail(chars), acc * 10 + DigitVal(Head(chars)))

\* parseInt(s) for a string given as its characters: optional sign, then the
\* longest prefix of digits; NaN when there is no digit
parseInt(chars) ==
    LET neg  == chars # <<>> /\ Head(chars) = "-"
        rest == IF chars # <<>> /\ Head(chars) \in {"-", "+"} THEN Tail(chars) ELSE chars
    IN  IF rest = <<>> \/ ~IsDigit(Head(rest)) THEN [nan |-> TRUE, val |-> 0]
        ELSE [nan |-> FALSE,
              val |-> IF neg THEN 0 - DigitPrefix(rest, 0) ELSE DigitPrefix(rest, 0)]

(***************************************************************************)
(* State                                                                   *)
(***************************************************************************)
VARIABLES
    openaiKey,           \* whether OPENAI_API_KEY is set (fixed at start-up)
    remoteUp,            \* whether the remote services answer the calls made to them
    adminSettings,       \* ragEnabled, similarityThreshold, maxTrainingExamples
    ragSettings,         \* enabled, mode, similarityThreshold, maxExamples
    documentStore,       \* sequence of chunks
    trainingExamples,    \* sequence of training examples
    conversationMemory,  \* sequence of conversation entries
    learningData,        \* queryCount, exampleCount, queries
    systemStats,         \* documentsProcessed, ragQueries, totalAnalyses, activeUsers
    timers,              \* number of decrement timers of the tracking that are pending
    reqs,                \* the handlers in flight, suspended at an await on I/O
    calls,               \* number of requests received so far
    processCalls,        \* number of processDocument calls made so far
    failures,            \* number of remote calls that did not succeed so far
    resp,                \* the response sent last
    lastEmbed,           \* history: the generateEmbedding call that settled last
    lastQuery,           \* history: the retrieveRelevantContext call that returned last
    lastAnalysis,        \* history: the settings the analysis answered last has read
    probe                \* a helper function called on its own: arguments and result

vars == << openaiKey, remoteUp, adminSettings, ragSettings, documentStore, trainingExamples,
           conversationMemory, learningData, systemStats, timers, reqs, calls,
           processCalls, failures, resp, lastEmbed, lastQuery, lastAnalysis, probe >>

\* all variables as one record, so that a handler is a function on it
World ==
    [ adminSettings |-> adminSettings, ragSettings |-> ragSettings,
      documentStore |-> documentStore, trainingExamples |-> trainingExamples,
      conversationMemory |-> conversationMemory, learningData |-> learningData,
      systemStats |-> systemStats, timers |-> timers, reqs |-> reqs, calls |-> calls,
      processCalls |-> processCalls, resp |-> resp,
      lastEmbed |-> lastEmbed, lastQuery |-> lastQuery,
      lastAnalysis |-> lastAnalysis ]

Becomes(W) ==
    /\ adminSettings' = W.adminSettings
    /\ ragSettings' = W.ragSettings
    /\ documentStore' = W.documentStore
    /\ trainingExamples' = W.trainingExamples
    /\ conversationMemory' = W.conversationMemory
    /\ learningData' = W.learningData
    /\ systemStats' = W.systemStats
    /\ timers' = W.timers
    /\ reqs' = W.reqs
    /\ calls' = W.calls
    /\ processCalls' = W.processCalls
    /\ resp' = W.resp
    /\ lastEmbed' = W.lastEmbed
    /\ lastQuery' = W.lastQuery
    /\ lastAnalysis' = W.lastAnalysis
    /\ UNCHANGED << openaiKey, remoteUp, probe >>

(***************************************************************************)
(* Inputs                                                                  *)
(***************************************************************************)
\* sentences of 300 characters: one about the market, one about market data,
\* and a blank one
SMarket == Str(<<"market">>, 300, 1, 0)
SData == Str(<<"market", "data">>, 300, 1, 0)
SBlank == Str(<<>>, 1, 1, 0)

\* training texts: one without any sentence, one that makes three chunks
Texts == { <<SBlank>>, <<SMarket, SMarket, SData>> }

\* file contents sent for analysis
AnalyzeTexts == { <<SMarket>> }

\* texts the generation service answers with
AnalysisTexts == { <<SData>> }

\* query strings: one about the market, one without any keyword
QMarket == Str(<<"market">>, 20, 0, 0)
QPlain == Str(<<>>, 20, 0, 0)

\* searches: a query, maxResults and the threshold of the body (0.9 or none)
Searches ==
    { <<QMarket, 0, [present |-> FALSE, val |-> Zero]>>,
      <<QMarket, 1, [present |-> TRUE, val |-> Sim(1, 81, 100)]>>,
      <<QMarket, 3, [present |-> FALSE, val |-> Zero]>>,
      <<QPlain, 3, [present |-> FALSE, val |-> Zero]>> }

FileNames == {"a.txt"}

\* the :index path parameter, as characters
IndexParams == { <<"0">>, <<"1">>, <<"-", "1">>, <<"a", "b", "c">> }


\* an optional field of a request body
Present(v) == [present |-> TRUE, val |-> v]
AbsentBool == [present |-> FALSE, val |-> FALSE]
AbsentNum == [present |-> FALSE, val |-> Zero]
AbsentStr == [present |-> FALSE, val |-> ""]

(***************************************************************************)
(* Handlers in flight                                                      *)
(***************************************************************************)
Idle ==
    [ op |-> "idle", pc |-> "idle", call |-> 0, fileName |-> "", category |-> "",
      content |-> <<>>, chunks |-> <<>>, processedChunks |-> <<>>,
      query |-> EmptyStr, limit |-> 0,
      relevantContext |-> <<>>, seen |-> {}, used |-> {}, ragOff |-> FALSE,
      threshold |-> Zero ]

NoEmbed == [text |-> EmptyStr, remote |-> FALSE, success |-> FALSE, result |-> Undefined]

\* the history record of a settled generateEmbedding call: its text, whether
\* it called the remote service, whether that call succeeded, and its result
Embedded(text, outcome, result) ==
    [text |-> text, remote |-> outcome.type # "nokey", success |-> outcome.type = "ok",
     result |-> result]

NoQuery ==
    [ store |-> <<>>, suspended |-> {}, embedded |-> FALSE,
      queryEmbedding |-> Undefined, threw |-> FALSE,
      threshold |-> Zero, limit |-> 0, result |-> <<>>, ragQueriesBefore |-> 0,
      ragQueriesAfter |-> 0 ]

\* history of the settings reads of one request: the settings states that
\* existed while it ran, and the <<field, value>> pairs it has read
NoAnalysis == [seen |-> {}, used |-> {}]

NoResp == [op |-> "none", status |-> 0, deletedFile |-> "", count |-> 0]

\* a response: the operation, the HTTP status, and what the body reports
\* (deletedFile; removedChunks, chunksProcessed, documentsUsed or matchCount)
Response(op, status, deletedFile, count) ==
    [op |-> op, status |-> status, deletedFile |-> deletedFile, count |-> count]

\* the answer of the vector search: matchCount, the similarity of each match
\* and the threshold of the request
SearchResponse(matches, threshold) ==
    [op |-> "search", status |-> 200, deletedFile |-> "", count |-> Len(matches),
     similarities |-> [i \in 1..Len(matches) |-> matches[i].similarity],
     threshold |-> threshold]

\* learningData.targetQueries (line 889), which nothing writes
targetQueries == 50

\* The server starts with an empty learning buffer.  To bring the target of
\* 50 samples within reach, a behaviour may also start from the state the
\* server is in after rag-settings {enabled: false}, 49 analyses,
\* clear-training and rag-settings {enabled: true}: 49 samples recorded
\* without RAG, everything else as at start-up.
PriorAnalyses == {0, targetQueries - 1}

PriorSample == [query |-> <<SMarket>>, response |-> <<SData>>, ragUsed |-> FALSE]

\* the state at start-up, but for n learning samples recorded before
InitWith(n) ==
    /\ openaiKey \in BOOLEAN
    /\ remoteUp \in BOOLEAN
    /\ adminSettings = [ragEnabled |-> TRUE, similarityThreshold |-> Sim(1, 49, 100),
                        maxTrainingExamples |-> 5, systemPrompt |-> "default"]
    /\ ragSettings = [enabled |-> TRUE, mode |-> "learning",
                      similarityThreshold |-> Sim(1, 49, 100), maxExamples |-> 5]
    /\ documentStore = <<>>
    /\ trainingExamples = <<>>
    /\ conversationMemory = <<>>
    /\ learningData = [queryCount |-> n, exampleCount |-> 0,
                       queries |-> [i \in 1..n |-> PriorSample]]
    /\ systemStats = [documentsProcessed |-> 0, ragQueries |-> 0, totalAnalyses |-> n,
                      activeUsers |-> 0]
    /\ timers = 0
    /\ reqs = [r \in Reqs |-> Idle]
    /\ calls = 0
    /\ processCalls = 0
    /\ failures = 0
    /\ resp = NoResp
    /\ lastEmbed = NoEmbed
    /\ lastQuery = NoQuery
    /\ lastAnalysis = NoAnalysis

\* a call of one of the helper functions: its arguments and, once it has
\* returned, its result
Call(fn, args) == [fn |-> fn, args |-> args, done |-> FALSE, result |-> <<>>]
NoProbe == Call("none", <<>>)

Init == (\E n \in PriorAnalyses : InitWith(n)) /\ probe = NoProbe

(***************************************************************************)
(* processDocument                                                         *)
(***************************************************************************)
\* the settings fields POST /api/analyze reads: adminSettings.ragEnabled,
\* adminSettings.similarityThreshold and ragSettings.enabled
Settings(W) ==
    [ ragEnabled |-> W.adminSettings.ragEnabled,
      similarityThreshold |-> W.adminSettings.similarityThreshold,
      enabled |-> W.ragSettings.enabled ]

\* history: the analysis in slot r reads a settings field
Reads(W, r, field) ==
    IF W.reqs[r].op = "analyze"
    THEN [W EXCEPT !.reqs[r].used = @ \cup {<<field, Settings(W)[field]>>}]
    ELSE W

\* history: the settings have been written while analyses are in flight
SettingsSeen(W) ==
    [W EXCEPT !.reqs = [r \in Reqs |->
        IF W.reqs[r].op = "analyze"
        THEN [W.reqs[r] EXCEPT !.seen = @ \cup {Settings(W)}]
        ELSE W.reqs[r]]]

\* the response of a handler ends it
Respond(W, r, response) == [W EXCEPT !.reqs[r] = Idle, !.resp = response]

\* lines 1007-1017; call stands for the identity of the processDocument call
DocChunk(fileName, category, chunks, i, embedding, call) ==
    [ id |-> <<fileName, i - 1>>, fileName |-> fileName, content |-> chunks[i],
      embedding |-> embedding, category |-> category, chunkIndex |-> i - 1,
      totalChunks |-> Len(chunks), call |-> call ]

\* a variant: every chunk is pushed as soon as it has been processed
documentStorePushEach(store, processedChunks, done) ==
    IF processedChunks = <<>> THEN store
    ELSE IF done /\ ~openaiKey THEN store \o processedChunks
    ELSE Append(store, processedChunks[Len(processedChunks)])

\* the store after one more chunk has been processed: documentStore.push
\* happens once, after the loop (line 1022)
documentStorePush(store, processedChunks, done) ==
    IF done THEN store \o processedChunks ELSE store

\* lines 1259-1283: POST /api/analyze counts the analysis and answers,
\* reporting adminSettings.ragEnabled
RespondAnalysis(W, r) ==
    LET W1 == Reads(W, r, "ragEnabled")
    IN  Respond([W1 EXCEPT !.systemStats.totalAnalyses = @ + 1,
                           !.lastAnalysis = [seen |-> W1.reqs[r].seen,
                                             used |-> W1.reqs[r].used]],
                r, Response("analyze", 200, "", Len(W.reqs[r].relevantContext)))

\* lines 1023-1026 and the rest of the calling handler
FinishDocument(W, r) ==
    LET q  == W.reqs[r]
        W1 == [W EXCEPT !.systemStats.documentsProcessed = @ + 1]
    IN  IF q.op = "analyze"
        THEN RespondAnalysis(W1, r)
        ELSE IF q.op = "vectorize"
        THEN Respond([W1 EXCEPT !.learningData.exampleCount = Len(W1.trainingExamples)],
                     r, Response(q.op, 200, "", Len(q.processedChunks)))
        ELSE Respond(W1, r, Response(q.op, 200, "", Len(q.processedChunks)))

\* processDocument up to its first await on the embeddings endpoint
StartDocument(W, r, content, fileName, category) ==
    LET chunks == splitIntoChunks(content, ChunkSize)
        call   == W.processCalls + 1
        local  == [i \in 1..Len(chunks) |->
                     DocChunk(fileName, category, chunks, i,
                              generateEmbedding(chunks[i], NoKey), call)]
        W0     == [W EXCEPT !.processCalls = call, !.reqs[r].call = call]
    IN  IF chunks = <<>>
        THEN FinishDocument(
                 [W0 EXCEPT !.reqs[r].processedChunks = <<>>,
                            !.documentStore = documentStorePush(@, <<>>, TRUE)], r)
        ELSE IF ~openaiKey
        THEN FinishDocument(
                 [W0 EXCEPT !.reqs[r].processedChunks = local,
                            !.documentStore = documentStorePush(@, local, TRUE),
                            !.lastEmbed = Embedded(chunks[Len(chunks)], NoKey,
                                                   local[Len(chunks)].embedding)], r)
        ELSE [W0 EXCEPT !.reqs[r].pc = "embed", !.reqs[r].chunks = chunks,
                       !.reqs[r].processedChunks = <<>>, !.reqs[r].fileName = fileName,
                       !.reqs[r].category = category]

\* processDocument from the return of one embedding call to the next await
ResumeDocument(W, r, outcome) ==
    LET q         == W.reqs[r]
        i         == Len(q.processedChunks) + 1
        embedding == generateEmbedding(q.chunks[i], outcome)
        processed == Append(q.processedChunks,
                            DocChunk(q.fileName, q.category, q.chunks, i, embedding, q.call))
        done      == i = Len(q.chunks)
        W1        == [W EXCEPT !.reqs[r].processedChunks = processed,
                               !.lastEmbed = Embedded(q.chunks[i], outcome, embedding),
                               !.documentStore = documentStorePush(@, processed, done)]
    IN  IF done THEN FinishDocument(W1, r) ELSE W1

(***************************************************************************)
(* POST /api/analyze, after retrieval                                      *)
(***************************************************************************)
\* `Analysis_${fileName}_${Date.now()}`; the number of the processDocument call
\* stands for the clock
AnalysisName(fileName, call) == "Analysis_" \o fileName \o "_" \o ToString(call)

\* lines 1183-1230: up to the await on the generation service
Generate(W, r, relevantContext) ==
    [Reads(W, r, "ragEnabled") EXCEPT !.conversationMemory =
                  Append(@, [fileName |-> W.reqs[r].fileName,
                             relevantContextUsed |-> Len(relevantContext),
                             ragEnabled |-> W.adminSettings.ragEnabled]),
              !.reqs[r].relevantContext = relevantContext,
              !.reqs[r].pc = "generate"]

\* a variant: the sample that reaches the target advances the mode
recordLearningSampleAdvancing(W, query, response, ragUsed) ==
    [W EXCEPT !.learningData.queryCount = @ + 1,
              !.learningData.queries =
                  Append(@, [query |-> query, response |-> response, ragUsed |-> ragUsed]),
              !.ragSettings.mode = IF W.learningData.queryCount + 1 >= targetQueries
                                   THEN "retrieval" ELSE @]

\* a variant: no sample is recorded once the target has been reached
recordLearningSampleCapped(W, query, response, ragUsed) ==
    IF W.learningData.queryCount >= targetQueries THEN W
    ELSE [W EXCEPT !.learningData.queryCount = @ + 1,
                   !.learningData.queries =
                       Append(@, [query |-> query, response |-> response,
                                  ragUsed |-> ragUsed])]

\* lines 1239-1245: the learning block of POST /api/analyze
\* a variant: ragUsed tells whether RAG is switched on
recordLearningSampleRagOn(W, query, response, ragUsed) ==
    [W EXCEPT !.learningData.queryCount = @ + 1,
              !.learningData.queries =
                  Append(@, [query |-> query, response |-> response,
                             ragUsed |-> W.adminSettings.ragEnabled])]

recordLearningSample(W, query, response, ragUsed) ==
    [W EXCEPT !.learningData.queryCount = @ + 1,
              !.learningData.queries =
                  Append(@, [query |-> query, response |-> response, ragUsed |-> ragUsed])]

\* lines 1232-1312: from the return of the generation call.  An answer
\* without text makes analysis undefined: it is recorded as a learning sample,
\* and splitIntoChunks(undefined) throws in processDocument.
\* a variant: the learning block runs whatever the generation call returns
ResumeAnalyzeEager(W, r, outcome) ==
    LET q  == W.reqs[r]
        W1 == IF W.ragSettings.mode = "learning"
              THEN recordLearningSample(W, q.content, outcome.vec,
                                        Len(q.relevantContext) > 0)
              ELSE W
        W2 == Reads(W1, r, "enabled")
    IN  IF outcome.type = "error"
        THEN Respond(W1, r, Response("analyze", 500, "", 0))
        ELSE IF ~W2.ragSettings.enabled
        THEN RespondAnalysis(W2, r)
        ELSE IF outcome.type = "notext"
        THEN Respond(W2, r, Response("analyze", 500, "", 0))
        ELSE StartDocument(W2, r, outcome.vec, AnalysisName(q.fileName, W2.processCalls + 1),
                           "generated-analysis")

ResumeAnalyze(W, r, outcome) ==
    LET q  == W.reqs[r]
        W1 == IF W.ragSettings.mode = "learning"
              THEN recordLearningSample(W, q.content, outcome.vec,
                                        Len(q.relevantContext) > 0)
              ELSE W
        W2 == Reads(W1, r, "enabled")
    IN  IF outcome.type = "error"
        THEN Respond(W, r, Response("analyze", 500, "", 0))
        ELSE IF ~W2.ragSettings.enabled
        THEN RespondAnalysis(W2, r)
        ELSE IF outcome.type = "notext"
        THEN Respond(W2, r, Response("analyze", 500, "", 0))
        ELSE StartDocument(W2, r, outcome.vec, AnalysisName(q.fileName, W2.processCalls + 1),
                           "generated-analysis")

(***************************************************************************)
(* retrieveRelevantContext                                                 *)
(***************************************************************************)
\* a variant without the try/catch: the chunks that could be scored
retrieveRelevantContextUncaught(store, queryEmbedding, threshold, limit) ==
    RelevantDocs(store, queryEmbedding, threshold, limit)

\* lines 1041-1059: what the call returns once the query embedding is known
retrieveRelevantContext(store, queryEmbedding, threshold, limit) ==
    IF ScoringThrows(store, queryEmbedding) THEN <<>>
    ELSE RelevantDocs(store, queryEmbedding, threshold, limit)

\* the caller continues with the retrieved context
Retrieved(W, r, result) ==
    IF W.reqs[r].op = "analyze" THEN Generate(W, r, result)
    ELSE IF W.reqs[r].op = "chat"
    THEN [W EXCEPT !.reqs[r].relevantContext = result, !.reqs[r].pc = "generate"]
    ELSE Respond(W, r, SearchResponse(result, W.reqs[r].threshold))

\* history: the processDocument calls of other handlers that are suspended in
\* their loop, with the number of chunks each has processed so far
Suspended(W, r) ==
    { <<W.reqs[x].call, Len(W.reqs[x].processedChunks)>> :
        x \in {y \in Reqs : y # r /\ W.reqs[y].pc = "embed"} }

\* a variant: the map writes the similarity into the stored chunks
ScoreInPlace(W, r, queryEmbedding) ==
    LET q      == W.reqs[r]
        threw  == ScoringThrows(W.documentStore, queryEmbedding)
        result == retrieveRelevantContext(W.documentStore, queryEmbedding,
                                          W.adminSettings.similarityThreshold, q.limit)
        W1     == [W EXCEPT !.systemStats.ragQueries = IF threw THEN @ ELSE @ + 1,
                            !.documentStore = Similarities(@, queryEmbedding)]
    IN  Retrieved([Reads(W1, r, "similarityThreshold") EXCEPT !.lastQuery =
                      [ store |-> W.documentStore, suspended |-> Suspended(W, r),
                        embedded |-> TRUE, queryEmbedding |-> queryEmbedding,
                        threw |-> threw,
                        threshold |-> W.adminSettings.similarityThreshold,
                        limit |-> q.limit, result |-> result,
                        ragQueriesBefore |-> W.systemStats.ragQueries,
                        ragQueriesAfter |-> W1.systemStats.ragQueries ]],
                  r, result)

\* lines 1041-1054 on the store as it is when the embedding has arrived
Score(W, r, queryEmbedding) ==
    LET q      == W.reqs[r]
        threw  == ScoringThrows(W.documentStore, queryEmbedding)
        result == retrieveRelevantContext(W.documentStore, queryEmbedding,
                                          W.adminSettings.similarityThreshold, q.limit)
        W1     == [W EXCEPT !.systemStats.ragQueries = IF threw THEN @ ELSE @ + 1]
    IN  Retrieved([Reads(W1, r, "similarityThreshold") EXCEPT !.lastQuery =
                      [ store |-> W.documentStore, suspended |-> Suspended(W, r),
                        embedded |-> TRUE, queryEmbedding |-> queryEmbedding,
                        threw |-> threw,
                        threshold |-> W.adminSettings.similarityThreshold,
                        limit |-> q.limit, result |-> result,
                        ragQueriesBefore |-> W.systemStats.ragQueries,
                        ragQueriesAfter |-> W1.systemStats.ragQueries ]],
                  r, result)

\* a variant: no short cut for the empty store
StartRetrieveAlways(W, r, query, limit) ==
    LET q  == W.reqs[r]
        W1 == [W EXCEPT !.reqs[r].query = query, !.reqs[r].limit = limit]
        qe == generateEmbedding(query, NoKey)
    IN  IF ~openaiKey
        THEN Score([W1 EXCEPT !.lastEmbed = Embedded(query, NoKey, qe)], r, qe)
        ELSE [W1 EXCEPT !.reqs[r].pc = "qembed"]

\* lines 1035-1040: up to the await on the embeddings endpoint
StartRetrieve(W, r, query, limit) ==
    LET q  == W.reqs[r]
        W1 == [W EXCEPT !.reqs[r].query = query, !.reqs[r].limit = limit]
        qe == generateEmbedding(query, NoKey)
    IN  IF W.documentStore = <<>>
        THEN Retrieved([W1 EXCEPT !.lastQuery =
                           [ store |-> <<>>, suspended |-> Suspended(W, r),
                             embedded |-> FALSE, queryEmbedding |-> Undefined,
                             threw |-> FALSE,
                             threshold |-> W.adminSettings.similarityThreshold,
                             limit |-> limit, result |-> <<>>,
                             ragQueriesBefore |-> W.systemStats.ragQueries,
                             ragQueriesAfter |-> W.systemStats.ragQueries ]],
                       r, <<>>)
        ELSE IF ~openaiKey
        THEN Score([W1 EXCEPT !.lastEmbed = Embedded(query, NoKey, qe)], r, qe)
        ELSE [W1 EXCEPT !.reqs[r].pc = "qembed"]

\* from the return of the query's embedding call
ResumeRetrieve(W, r, outcome) ==
    LET q  == W.reqs[r]
        qe == generateEmbedding(q.query, outcome)
    IN  Score([W EXCEPT !.lastEmbed = Embedded(q.query, outcome, qe)], r, qe)

(***************************************************************************)
(* Handlers without an await                                               *)
(***************************************************************************)
RECURSIVE SelectSeq2(_, _)
\* docs.filter(doc => doc.fileName !== fileName)
SelectSeq2(docs, fileName) ==
    IF docs = <<>> THEN <<>>
    ELSE IF Head(docs).fileName # fileName
         THEN <<Head(docs)>> \o SelectSeq2(Tail(docs), fileName)
         ELSE SelectSeq2(Tail(docs), fileName)

\* array.splice(start, 1) leaves the array without its element at start
Splice(array, start) ==
    [i \in 1..(Len(array) - 1) |-> IF i <= start THEN array[i] ELSE array[i + 1]]

\* the bounds check of line 1762 on the parsed index; every comparison
\* with NaN is false
IndexRejected(index, length) ==
    ~index.nan /\ (index.val < 0 \/ index.val >= length)

\* a variant: the delete forgets the chunks of the removed example
deleteTrainingExampleOnly(W, param) ==
    LET index   == parseInt(param)
        start   == IF index.nan THEN 0 ELSE index.val
        removed == W.trainingExamples[start + 1]
    IN  IF IndexRejected(index, Len(W.trainingExamples))
        THEN [W EXCEPT !.resp = Response("delete", 404, "", 0)]
        ELSE IF start >= Len(W.trainingExamples)
        THEN [W EXCEPT !.resp = Response("delete", 500, "", 0)]
        ELSE [W EXCEPT !.trainingExamples = Splice(@, start),
                       !.resp = Response("delete", 200, removed.fileName, 0)]

\* a variant: the delete empties the store
deleteTrainingExampleAll(W, param) ==
    LET index   == parseInt(param)
        start   == IF index.nan THEN 0 ELSE index.val
        removed == W.trainingExamples[start + 1]
    IN  IF IndexRejected(index, Len(W.trainingExamples))
        THEN [W EXCEPT !.resp = Response("delete", 404, "", 0)]
        ELSE IF start >= Len(W.trainingExamples)
        THEN [W EXCEPT !.resp = Response("delete", 500, "", 0)]
        ELSE [W EXCEPT !.trainingExamples = Splice(@, start),
                       !.documentStore = <<>>,
                       !.resp = Response("delete", 200, removed.fileName,
                                         Len(W.documentStore)
                                           - Len(SelectSeq2(W.documentStore,
                                                            removed.fileName)))]

\* DELETE /admin/training-examples/:index
deleteTrainingExample(W, param) ==
    LET index   == parseInt(param)
        \* splice converts its start argument to an integer: NaN becomes 0
        start   == IF index.nan THEN 0 ELSE index.val
        removed == W.trainingExamples[start + 1]
        kept    == SelectSeq2(W.documentStore, removed.fileName)
    IN  IF IndexRejected(index, Len(W.trainingExamples))
        THEN [W EXCEPT !.resp = Response("delete", 404, "", 0)]
        ELSE IF start >= Len(W.trainingExamples)
        \* splice removed nothing: removed.fileName throws, the catch answers 500
        THEN [W EXCEPT !.resp = Response("delete", 500, "", 0)]
        ELSE [W EXCEPT !.trainingExamples = Splice(@, start),
                       !.documentStore = kept,
                       !.resp = Response("delete", 200, removed.fileName,
                                         Len(W.documentStore) - Len(kept))]

\* the response of clear-training: count is previousCount
ClearResponse(previousCount, previousChunks) ==
    [ op |-> "clear", status |-> 200, deletedFile |-> "", count |-> previousCount,
      previousChunks |-> previousChunks ]

\* a variant: clearing the training data also switches RAG off
clearTrainingAndRag(W) ==
    [W EXCEPT !.trainingExamples = <<>>, !.documentStore = <<>>,
              !.conversationMemory = <<>>,
              !.adminSettings.ragEnabled = FALSE,
              !.resp = ClearResponse(Len(W.trainingExamples), Len(W.documentStore))]

\* a variant: the sizes are taken after the arrays have been emptied, and
\* the conversation memory is kept
clearTrainingLate(W) ==
    [W EXCEPT !.trainingExamples = <<>>, !.documentStore = <<>>,
              !.resp = ClearResponse(0, 0)]

\* POST /admin/clear-training
clearTraining(W) ==
    [W EXCEPT !.trainingExamples = <<>>, !.documentStore = <<>>,
              !.conversationMemory = <<>>,
              !.resp = ClearResponse(Len(W.trainingExamples), Len(W.documentStore))]

\* POST /admin/rag-settings
ragSettingsUpdate(W, body) ==
    LET new == [ enabled |-> IF body.enabled.present THEN body.enabled.val
                             ELSE W.ragSettings.enabled,
                 mode |-> IF body.mode.present /\ body.mode.val # ""
                          THEN body.mode.val ELSE W.ragSettings.mode,
                 similarityThreshold |->
                     IF body.similarityThreshold.present THEN body.similarityThreshold.val
                     ELSE W.ragSettings.similarityThreshold,
                 maxExamples |-> IF body.maxExamples.present THEN body.maxExamples.val
                                 ELSE W.ragSettings.maxExamples ]
    IN  [W EXCEPT !.ragSettings = new,
                  !.adminSettings.ragEnabled = new.enabled,
                  !.adminSettings.similarityThreshold = new.similarityThreshold,
                  !.adminSettings.maxTrainingExamples = new.maxExamples,
                  !.resp = Response("rag-settings", 200, "", 0)]

\* a JavaScript number is truthy unless it is 0 or NaN
TruthyNum(x) == x.kind = "num" /\ x.s # 0

\* POST /admin/update-api-settings (the fields the RAG layer reads)
updateApiSettings(W, body) ==
    [W EXCEPT !.adminSettings.ragEnabled =
                  IF body.ragEnabled.present THEN body.ragEnabled.val ELSE @,
              !.adminSettings.similarityThreshold =
                  IF body.similarityThreshold.present
                     /\ TruthyNum(body.similarityThreshold.val)
                  THEN body.similarityThreshold.val ELSE @,
              !.adminSettings.maxTrainingExamples =
                  IF body.maxTrainingExamples.present /\ body.maxTrainingExamples.val # 0
                  THEN body.maxTrainingExamples.val ELSE @,
              !.resp = Response("update-api-settings", 200, "", 0)]

\* bodies of the settings requests
RagBody(enabled, mode, similarityThreshold, maxExamples) ==
    [enabled |-> enabled, mode |-> mode, similarityThreshold |-> similarityThreshold,
     maxExamples |-> maxExamples]

AbsentInt == [present |-> FALSE, val |-> 0]

\* { enabled: false, similarityThreshold: 0 },
\* { mode: 'retrieval', similarityThreshold: Math.SQRT1_2 } and
\* { mode: 'turbo' }, a mode the server does not know
RagBodies ==
    { RagBody(Present(FALSE), AbsentStr, Present(Zero), AbsentInt),
      RagBody(AbsentBool, Present("retrieval"), Present(Sim(1, 1, 2)), AbsentInt),
      RagBody(AbsentBool, Present("turbo"), AbsentNum, AbsentInt) }

ApiBody(ragEnabled, similarityThreshold, maxTrainingExamples) ==
    [ragEnabled |-> ragEnabled, similarityThreshold |-> similarityThreshold,
     maxTrainingExamples |-> maxTrainingExamples]

\* { ragEnabled: false, similarityThreshold: 0, maxTrainingExamples: 3 }
ApiBodies == { ApiBody(Present(FALSE), Present(Zero), Present(3)) }

(***************************************************************************)
(* Actions                                                                 *)
(***************************************************************************)
\* a request is received and its handler starts in the lowest free slot
Accept(r) ==
    /\ calls < MaxCalls
    /\ reqs[r].op = "idle"
    /\ \A r2 \in Reqs : r2 < r => reqs[r2].op # "idle"

\* history: RAG is off, the settings operation that set the flag last
\* (rag-settings with enabled, update-api-settings with ragEnabled) having set
\* it to false; both write adminSettings.ragEnabled and nothing else does
RagOff(W) == ~W.adminSettings.ragEnabled

\* the world once request number calls + 1 has been given slot r
Accepted(r, op, fileName, content, category) ==
    [World EXCEPT !.calls = @ + 1,
                  !.reqs[r] = [Idle EXCEPT !.op = op, !.pc = "run",
                                           !.fileName = fileName, !.content = content,
                                           !.category = category,
                                           !.seen = IF op = "analyze"
                                                    THEN {Settings(World)} ELSE {},
                                           !.ragOff = RagOff(World)]]

\* a string is falsy when it is empty
Falsy(text) == text = <<EmptyStr>>

\* POST /admin/upload-training, up to its first await
uploadTraining(W, r, trainingData, fileName) ==
    LET W1 == [W EXCEPT !.trainingExamples =
                   Append(@, [content |-> trainingData, fileName |-> fileName,
                              category |-> "training"])]
    IN  IF Falsy(trainingData) \/ fileName = ""
        THEN Respond(W, r, Response("upload", 400, "", 0))
        ELSE IF W1.adminSettings.ragEnabled
        THEN StartDocument(W1, r, trainingData, fileName, "training")
        ELSE Respond(W1, r, Response("upload", 200, "", 0))

UploadTraining(r, trainingData, fileName) ==
    /\ Accept(r)
    /\ Becomes(uploadTraining(Accepted(r, "upload", fileName, trainingData, "training"),
                              r, trainingData, fileName))
    /\ UNCHANGED failures

\* `${fileContent.substring(0, 500)} ${userPrompt || ''}` without a user prompt:
\* the words of the first sentence, at most 500 characters and a space
AnalyzeQuery(fileContent) ==
    LET first == Head(fileContent)
    IN  Str(first.words, (IF first.len < 500 THEN first.len ELSE 500) + 1, first.lead, 1)

\* POST /api/analyze with a well-formed Anthropic key, up to its first await
analyze(W, r, fileContent) ==
    IF Falsy(fileContent)
    THEN Respond(W, r, Response("analyze", 400, "", 0))
    ELSE IF W.adminSettings.ragEnabled
    THEN StartRetrieve(Reads(W, r, "ragEnabled"), r, AnalyzeQuery(fileContent), 3)
    ELSE Generate(Reads(W, r, "ragEnabled"), r, <<>>)

\* POST /api/chat, up to its first await
chat(W, r, question) ==
    IF W.adminSettings.ragEnabled
    THEN StartRetrieve(W, r, question, 2)
    ELSE [W EXCEPT !.reqs[r].pc = "generate"]

\* POST /api/chat from the return of the generation call
ResumeChat(W, r, outcome) ==
    IF outcome.type = "error"
    THEN Respond(W, r, Response("chat", 500, "", 0))
    ELSE Respond(W, r, Response("chat", 200, "", 0))

\* POST /admin/upload-training-vectorize, up to its first await
uploadTrainingVectorize(W, r, trainingData, fileName, vectorize) ==
    LET W1 == [W EXCEPT !.trainingExamples =
                   Append(@, [content |-> trainingData, fileName |-> fileName,
                              category |-> "training"])]
    IN  IF Falsy(trainingData) \/ fileName = ""
        THEN Respond(W, r, Response("vectorize", 400, "", 0))
        ELSE IF vectorize /\ W1.ragSettings.enabled
        THEN StartDocument(W1, r, trainingData, fileName, "training")
        ELSE Respond([W1 EXCEPT !.learningData.exampleCount = Len(W1.trainingExamples)],
                     r, Response("vectorize", 200, "", 0))

\* Math.round(num / den) for num >= 0, den > 0
MathRound(num, den) == (2 * num + den) \div (2 * den)

\* a variant: the percentage is not capped
progressPercentUncapped(queryCount) == MathRound(queryCount * 100, targetQueries)

\* Math.round(Math.min((queryCount / targetQueries) * 100, 100)); the double
\* (queryCount / targetQueries) * 100 is within 1e-13 of the rational
\* queryCount * 100 / targetQueries, far from where rounding could differ
progressPercent(queryCount) ==
    IF queryCount * 100 < 100 * targetQueries
    THEN MathRound(queryCount * 100, targetQueries)
    ELSE MathRound(100, 1)

\* GET /admin/learning-progress
learningProgress(W) ==
    [W EXCEPT !.resp =
        [ op |-> "progress", status |-> 200, deletedFile |-> "",
          count |-> W.learningData.queryCount,
          progressPercent |-> progressPercent(W.learningData.queryCount),
          readyForFineTuning |-> W.learningData.queryCount >= targetQueries ]]

\* POST /admin/update-prompt
updatePrompt(W, systemPrompt) ==
    IF systemPrompt = ""
    THEN [W EXCEPT !.resp = Response("update-prompt", 400, "", 0)]
    ELSE [W EXCEPT !.adminSettings.systemPrompt = systemPrompt,
                   !.resp = Response("update-prompt", 200, "", 0)]

\* questions put to the chat, system prompts set by the administrator
Questions == { QMarket }
VectorizeTexts == { <<SData>> }
Prompts == { "custom" }

Analyze(r, fileContent, fileName) ==
    /\ Accept(r)
    /\ Becomes(analyze(Accepted(r, "analyze", fileName, fileContent, ""), r, fileContent))
    /\ UNCHANGED failures

\* const { query, threshold = 0.7, maxResults = 3 } = req.body, and the call
\* of retrieveRelevantContext(query, maxResults)
testVectorSearch(W, r, query, threshold, maxResults) ==
    StartRetrieve([W EXCEPT !.reqs[r].threshold =
                                IF threshold.present THEN threshold.val
                                ELSE Sim(1, 49, 100)],
                  r, query, maxResults)

\* POST /admin/test-vector-search, up to its first await
TestVectorSearch(r, query, threshold, maxResults) ==
    /\ Accept(r)
    /\ Becomes(testVectorSearch(Accepted(r, "search", "", <<>>, ""), r, query,
                                threshold, maxResults))
    /\ UNCHANGED failures

Chat(r, question) ==
    /\ Accept(r)
    /\ Becomes(chat(Accepted(r, "chat", "", <<>>, ""), r, question))
    /\ UNCHANGED failures

UploadTrainingVectorize(r, trainingData, fileName) ==
    /\ Accept(r)
    /\ Becomes(uploadTrainingVectorize(
                   Accepted(r, "vectorize", fileName, trainingData, "training"),
                   r, trainingData, fileName, TRUE))
    /\ UNCHANGED failures

LearningProgress ==
    /\ calls < MaxCalls
    /\ Becomes(learningProgress([World EXCEPT !.calls = @ + 1]))
    /\ UNCHANGED failures

UpdatePrompt(systemPrompt) ==
    /\ calls < MaxCalls
    /\ Becomes(SettingsSeen(updatePrompt([World EXCEPT !.calls = @ + 1], systemPrompt)))
    /\ UNCHANGED failures

DeleteTrainingExample(param) ==
    /\ calls < MaxCalls
    /\ Becomes(deleteTrainingExample([World EXCEPT !.calls = @ + 1], param))
    /\ UNCHANGED failures

ClearTraining ==
    /\ calls < MaxCalls
    /\ Becomes(clearTraining([World EXCEPT !.calls = @ + 1]))
    /\ UNCHANGED failures

RagSettings(body) ==
    /\ calls < MaxCalls
    /\ Becomes(SettingsSeen(ragSettingsUpdate([World EXCEPT !.calls = @ + 1], body)))
    /\ UNCHANGED failures

UpdateApiSettings(body) ==
    /\ calls < MaxCalls
    /\ Becomes(SettingsSeen(updateApiSettings([World EXCEPT !.calls = @ + 1], body)))
    /\ UNCHANGED failures

\* the remote service a handler waits for answers (or fails)
\*   ok     : 200 with content[0].text = vec
\*   error  : the promise rejects, or the body lacks content / content[0]
\*   notext : 200 with content[0] present but lacking text
GenerationOutcomes ==
    [type : {"ok"}, vec : AnalysisTexts] \cup [type : {"error", "notext"}, vec : {<<>>}]

\* the remote call a handler waits for settles with outcome and the event
\* loop runs the continuation of the handler
Resume(r, outcome) ==
    /\ remoteUp
    /\ reqs[r].pc \in {"embed", "qembed", "generate"}
    /\ IF reqs[r].pc = "generate" THEN outcome \in GenerationOutcomes
                                  ELSE outcome \in RemoteOutcomes
    /\ outcome.type # "ok" => failures < MaxFailures
    /\ failures' = IF outcome.type = "ok" THEN failures ELSE failures + 1
    /\ Becomes(CASE reqs[r].pc = "embed"    -> ResumeDocument(World, r, outcome)
                 [] reqs[r].pc = "qembed"   -> ResumeRetrieve(World, r, outcome)
                 [] reqs[r].pc = "generate" ->
                        IF reqs[r].op = "chat" THEN ResumeChat(World, r, outcome)
                        ELSE ResumeAnalyze(World, r, outcome))

Next ==
    \/ \E r \in Reqs, t \in Texts, f \in FileNames : UploadTraining(r, t, f)
    \/ \E r \in Reqs, t \in AnalyzeTexts, f \in FileNames : Analyze(r, t, f)
    \/ \E r \in Reqs, s \in Searches : TestVectorSearch(r, s[1], s[3], s[2])
    \/ \E r \in Reqs, q \in Questions : Chat(r, q)
    \/ \E r \in Reqs, t \in VectorizeTexts, f \in FileNames :
          UploadTrainingVectorize(r, t, f)
    \/ LearningProgress
    \/ \E p \in Prompts : UpdatePrompt(p)
    \/ \E p \in IndexParams : DeleteTrainingExample(p)
    \/ ClearTraining
    \/ \E b \in RagBodies : RagSettings(b)
    \/ \E b \in ApiBodies : UpdateApiSettings(b)
    \/ \E r \in Reqs, o \in RemoteOutcomes \cup GenerationOutcomes : Resume(r, o)

Spec == Init /\ [][Next]_vars

\* The progress report as a function of the number of recorded samples: the
\* server without OpenAI key, with any number of samples up to MaxSamples
\* recorded before, answering GET /admin/learning-progress.
ProgressInit ==
    (\E n \in 0..MaxSamples : InitWith(n) /\ ~openaiKey /\ remoteUp) /\ probe = NoProbe

ProgressSpec == ProgressInit /\ [][LearningProgress]_vars

(***************************************************************************)
(* The helper functions on their own                                       *)
(***************************************************************************)
\* the variables of the server, which a helper function neither reads nor writes
serverVars ==
    << openaiKey, remoteUp, adminSettings, ragSettings, documentStore, trainingExamples,
       conversationMemory, learningData, systemStats, timers, reqs, calls, processCalls,
       failures, resp, lastEmbed, lastQuery, lastAnalysis >>

Quiet == InitWith(0) /\ ~openaiKey /\ remoteUp

\* the call fn is pending
Pending(fn) == probe.fn = fn /\ ~probe.done

\* the call once it has returned result
Returned(call, result) == [call EXCEPT !.done = TRUE, !.result = result]

\* the sentences text.split(/[.!?]+/) yields: the i-th is blank (one space),
\* or has the word w_i and 3, 4 (one of them a leading space), 5 (one of them
\* a trailing space) or 6 characters
SentenceWords == [i \in 1..9 |-> <<"w1", "w2", "w3", "w4", "w5", "w6", "w7", "w8", "w9">>[i]]

SentencesAt(i) ==
    { Str(<<>>, 1, 1, 0), Str(<<SentenceWords[i]>>, 3, 0, 0),
      Str(<<SentenceWords[i]>>, 4, 1, 0), Str(<<SentenceWords[i]>>, 5, 0, 1),
      Str(<<SentenceWords[i]>>, 6, 0, 0) }

ChunkTexts ==
    UNION { { t \in [1..n -> UNION {SentencesAt(i) : i \in 1..n}] :
                \A i \in 1..n : t[i] \in SentencesAt(i) } : n \in 0..MaxSentences }

\* maxChunkSize arguments: nothing fits, some sentences fit, two fit, all fit
ChunkSizes == {0, 4, 6, 8, 10, 11, 500}

ChunkInit ==
    /\ Quiet
    /\ probe \in { Call("splitIntoChunks", [text |-> t, maxChunkSize |-> m]) :
                      t \in ChunkTexts, m \in ChunkSizes }

SplitIntoChunks ==
    /\ Pending("splitIntoChunks")
    /\ probe' = Returned(probe, splitIntoChunks(probe.args.text, probe.args.maxChunkSize))
    /\ UNCHANGED serverVars

ChunkSpec == ChunkInit /\ [][SplitIntoChunks]_vars

\* words of the texts given to generateKeywordVector: the first and the last
\* keyword, one in between, and a word that is no keyword
TextWords == {"market", "data", "therapy", "other"}

KeywordTexts ==
    {EmptyStr} \cup
    { Str(ws, n, 0, 0) : ws \in UNION {[1..k -> TextWords] : k \in 0..MaxWords},
                         n \in {20, 40, 50} }

KeywordVectorInit ==
    /\ Quiet
    /\ probe \in { Call("generateKeywordVector", [text |-> t]) : t \in KeywordTexts }

GenerateKeywordVector ==
    /\ Pending("generateKeywordVector")
    /\ probe' = Returned(probe, generateKeywordVector(probe.args.text))
    /\ UNCHANGED serverVars

KeywordVectorSpec == KeywordVectorInit /\ [][GenerateKeywordVector]_vars

\* tokens of the texts given to extractKeywords: two words, a word of three
\* characters, two years
Tokens ==
    { Token("market", 6, -1), Token("data", 4, -1), Token("the", 3, -1),
      Token("2024", 4, 2024), Token("2023", 4, 2023) }

\* a text of twelve different words of five characters, the last one twice
ManyWords ==
    [i \in 1..13 |->
        Token(<<"alpha", "bravo", "delta", "gamma", "kappa", "omega", "sigma", "theta",
                "eagle", "fjord", "piano", "couch", "couch">>[i], 5, -1)]

KeywordsInit ==
    /\ Quiet
    /\ probe \in { Call("extractKeywords", [text |-> t]) :
                      t \in {ManyWords} \cup UNION {[1..k -> Tokens] : k \in 0..MaxTokens} }

ExtractKeywords ==
    /\ Pending("extractKeywords")
    /\ probe' = Returned(probe, extractKeywords(probe.args.text))
    /\ UNCHANGED serverVars

KeywordsSpec == KeywordsInit /\ [][ExtractKeywords]_vars

\* vectors given to calculateSimilarity: one or two entries
SimilarityVectors == UNION { [1..n -> {-1, 0, 1, 3}] : n \in 1..2 }

SimilarityInit ==
    /\ Quiet
    /\ probe \in { Call("calculateSimilarity", [vector1 |-> a, vector2 |-> b]) :
                      a \in SimilarityVectors, b \in SimilarityVectors }

CalculateSimilarity ==
    /\ Pending("calculateSimilarity")
    /\ probe' = Returned(probe, calculateSimilarityDouble(probe.args.vector1,
                                                           probe.args.vector2))
    /\ UNCHANGED serverVars

SimilaritySpec == SimilarityInit /\ [][CalculateSimilarity]_vars

\* retrieveRelevantContext on a store of up to MaxChunks chunks, the chunks
\* of one document embedded by keywords: chunks about the market, about
\* market data, about treatment, and chunks without any keyword, whose
\* embedding is the zero vector
STreatment == Str(<<"treatment">>, 300, 1, 0)
StoredTexts == { SMarket, SData, STreatment, SBlank }

StoreOf(chunks) ==
    [i \in 1..Len(chunks) |->
        DocChunk("a.txt", "training", chunks, i, generateKeywordVector(chunks[i]), 1)]

RetrieveStores == { StoreOf(c) : c \in UNION { [1..n -> StoredTexts] : n \in 0..MaxChunks } }

\* the query embedding, of a query with or without a keyword; the threshold,
\* 0.7 or what rag-settings has set (0, -0.5); the limit
RetrieveInit ==
    /\ Quiet
    /\ probe \in { Call("retrieveRelevantContext",
                         [store |-> st, queryEmbedding |-> generateKeywordVector(q),
                          threshold |-> t, limit |-> l]) :
                      st \in RetrieveStores, q \in {QMarket, QPlain, SData},
                      t \in {Sim(1, 49, 100), Zero, Sim(-1, 1, 4)}, l \in {1, 3} }

RetrieveRelevantContext ==
    /\ Pending("retrieveRelevantContext")
    /\ probe' = Returned(probe, retrieveRelevantContext(probe.args.store,
                                                        probe.args.queryEmbedding,
                                                        probe.args.threshold,
                                                        probe.args.limit))
    /\ UNCHANGED serverVars

RetrieveSpec == RetrieveInit /\ [][RetrieveRelevantContext]_vars

(***************************************************************************)
(* Active users                                                            *)
(***************************************************************************)
\* The tracking middleware is registered after the routes (line 1848): the
\* requests that POST /api/analyze and POST /api/chat answer never reach it.
\* It runs for a request no route answers whose path includes '/api/analyze'
\* or '/api/chat' (another method, a longer path), which then gets the 404
\* answer. Nothing else reads or writes activeUsers but GET /admin/stats, so
\* the counter is followed on its own, with up to MaxTimers timers pending.

\* a variant: the count of tracked requests without the cap
trackRequestUncapped(W) ==
    [W EXCEPT !.systemStats.activeUsers = @ + 1, !.timers = @ + 1]

\* lines 1850-1854: Math.min(activeUsers + 1, 100), and setTimeout
trackRequest(W) ==
    [W EXCEPT !.systemStats.activeUsers = IF @ + 1 < 100 THEN @ + 1 ELSE 100,
              !.timers = @ + 1]

\* lines 1852-1854, five minutes later: Math.max(activeUsers - 1, 0)
timerFires(W) ==
    [W EXCEPT !.systemStats.activeUsers = IF @ - 1 > 0 THEN @ - 1 ELSE 0,
              !.timers = @ - 1]

Track ==
    /\ timers < MaxTimers
    /\ Becomes(trackRequest(World))
    /\ UNCHANGED failures

TimerFires ==
    /\ timers > 0
    /\ Becomes(timerFires(World))
    /\ UNCHANGED failures

UsersInit == Quiet /\ probe = NoProbe

UsersNext == Track \/ TimerFires

UsersSpec == UsersInit /\ [][UsersNext]_vars

\* When the remote services answer, the event loop runs the continuation of
\* every handler that waits for them; nothing obliges them to answer.
FairSpec == Spec /\ \A r \in Reqs : WF_vars(\E o \in RemoteOutcomes \cup GenerationOutcomes : Resume(r, o))

(***************************************************************************)
(* Properties                                                              *)
(***************************************************************************)
\* the chunks of store that one processDocument call made
ChunksOfCall(store, call) == {i \in DOMAIN store : store[i].call = call}

\* C1: the store a query scores holds, of every processDocument call, either
\* all the chunks of the call or none of them.
C1_QueryScoresWholeDocuments ==
    \A c \in 1..processCalls :
        LET seen == ChunksOfCall(lastQuery.store, c)
        IN  seen = {} \/ \A i \in seen : Cardinality(seen) = lastQuery.store[i].totalChunks

\* C1 witness: a query has scored a non-empty store while another handler was
\* suspended in processDocument with some of its chunks processed, and the
\* query saw none of that call's chunks.
C1_Witness ==
    /\ lastQuery.embedded
    /\ lastQuery.store # <<>>
    /\ \E s \in lastQuery.suspended :
          s[2] >= 1 /\ ChunksOfCall(lastQuery.store, s[1]) = {}

\* C2: every chunk of the store is a generated analysis or has the fileName
\* of exactly one training example.
C2_ChunkHasOneExample ==
    \A i \in DOMAIN documentStore :
        \/ documentStore[i].category = "generated-analysis"
        \/ Cardinality({j \in DOMAIN trainingExamples :
               trainingExamples[j].fileName = documentStore[i].fileName}) = 1

\* embedding.length; undefined has none
EmbeddingLength(embedding) ==
    IF embedding.kind = "undefined" THEN -1 ELSE Len(embedding.vals)

\* C3: all chunks of the store have embeddings of the same length.
C3_SameEmbeddingLength ==
    \A i, j \in DOMAIN documentStore :
        EmbeddingLength(documentStore[i].embedding)
            = EmbeddingLength(documentStore[j].embedding)

\* C4: a successful delete leaves no chunk with the fileName of the removed
\* example in the store and reports as removedChunks the number of chunks with
\* that fileName that were in the store before it.
C4_DeleteCascades ==
    [][\A p \in IndexParams :
          (DeleteTrainingExample(p) /\ resp'.status = 200) =>
              LET name  == resp'.deletedFile
                  index == parseInt(p)
              IN  /\ ~index.nan => name = trainingExamples[index.val + 1].fileName
                  /\ \A i \in DOMAIN documentStore' : documentStore'[i].fileName # name
                  /\ resp'.count =
                        Cardinality({i \in DOMAIN documentStore :
                                        documentStore[i].fileName = name})]_vars

\* C4 witness: the delete of an example whose upload made 3 chunks has
\* reported removedChunks = 3, and no chunk of the file is left.
C4_Witness ==
    /\ resp.op = "delete" /\ resp.status = 200 /\ resp.count = 3
    /\ \A i \in DOMAIN documentStore : documentStore[i].fileName # resp.deletedFile

\* the index parameter names an example of the registry
IdentifiesExample(param) ==
    LET index == parseInt(param)
    IN  ~index.nan /\ index.val >= 0 /\ index.val < Len(trainingExamples)

\* C5: a delete whose index parameter names no example (negative, too large,
\* not a number) answers 404 and changes neither the registry nor the store.
C5_BadIndexIsNotFound ==
    [][\A p \in IndexParams :
          (DeleteTrainingExample(p) /\ ~IdentifiesExample(p)) =>
              /\ resp'.status = 404
              /\ trainingExamples' = trainingExamples
              /\ documentStore' = documentStore]_vars

\* C6: whenever the remote embedding call does not succeed, generateEmbedding
\* returns the keyword vector of its text.
C6_FailureGivesKeywordVector ==
    (lastEmbed.remote /\ ~lastEmbed.success) =>
        lastEmbed.result = generateKeywordVector(lastEmbed.text)

\* handler r waits for the embedding of the chunk after its first k ones, or
\* (k = 0) of its query
AwaitsEmbedding(r, k) ==
    reqs[r].pc \in {"embed", "qembed"} /\ Len(reqs[r].processedChunks) = k

\* C7: every generateEmbedding call eventually returns.
C7_EmbeddingReturns ==
    \A r \in Reqs : \A k \in 0..2 : AwaitsEmbedding(r, k) ~> ~AwaitsEmbedding(r, k)

\* the similarity of chunk i of the store the last query scored
LastScore(i) ==
    calculateSimilarity(lastQuery.queryEmbedding, lastQuery.store[i].embedding)

\* the chunks of that store whose similarity is above the threshold
LastQualifying ==
    {i \in DOMAIN lastQuery.store : Gt(LastScore(i), lastQuery.threshold)}

\* the place in that store of a chunk the query returned (0 if it has none)
LastPos(doc) ==
    LET at == {i \in DOMAIN lastQuery.store :
                 /\ lastQuery.store[i].call = doc.call
                 /\ lastQuery.store[i].chunkIndex = doc.chunkIndex}
    IN  IF at = {} THEN 0 ELSE CHOOSE i \in at : TRUE

LastReturned == {LastPos(lastQuery.result[k]) : k \in DOMAIN lastQuery.result}

\* C8: a query returns the first `limit` of the chunks whose similarity is
\* strictly above the threshold, in descending order of similarity.
C8_ResultIsTopOfFiltered ==
    LET res == lastQuery.result
        n   == Cardinality(LastQualifying)
    IN  /\ Len(res) = IF lastQuery.limit < n THEN lastQuery.limit ELSE n
        /\ \A k \in DOMAIN res :
              /\ LastPos(res[k]) \in LastQualifying
              /\ res[k] = ScoredChunk(lastQuery.store[LastPos(res[k])],
                                      LastScore(LastPos(res[k])))
        /\ \A k, l \in DOMAIN res : k < l =>
              /\ LastPos(res[k]) # LastPos(res[l])
              /\ ~Gt(res[l].similarity, res[k].similarity)
        /\ \A i \in LastQualifying \ LastReturned :
              \A k \in DOMAIN res : ~Gt(LastScore(i), res[k].similarity)

\* C9: chunks of equal similarity are returned in their order in the store,
\* and of a group of equal similarity that the limit cuts, the chunks that
\* come first in the store are the ones returned.
C9_TiesKeepInsertionOrder ==
    LET res == lastQuery.result
    IN  /\ \A k, l \in DOMAIN res :
              (k < l /\ SimEq(res[k].similarity, res[l].similarity))
                  => LastPos(res[k]) < LastPos(res[l])
        /\ \A k \in DOMAIN res : \A i \in LastQualifying \ LastReturned :
              SimEq(LastScore(i), res[k].similarity) => LastPos(res[k]) < i

\* C9 witness: the limit has cut a group of chunks of equal similarity.
C9_Witness ==
    \E k \in DOMAIN lastQuery.result : \E i \in LastQualifying \ LastReturned :
        SimEq(LastScore(i), lastQuery.result[k].similarity)

\* C10: a retrieval that starts on an empty store returns the empty sequence
\* at once, without an embedding call and without counting as a RAG query.
C10_EmptyStoreShortCut ==
    [][documentStore = <<>> =>
          /\ \A r \in Reqs : \A s \in Searches :
                TestVectorSearch(r, s[1], s[3], s[2]) =>
                    /\ reqs'[r] = Idle
                    /\ resp'.op = "search" /\ resp'.status = 200 /\ resp'.count = 0
                    /\ lastEmbed' = lastEmbed
                    /\ systemStats'.ragQueries = systemStats.ragQueries
          /\ \A r \in Reqs : \A t \in AnalyzeTexts : \A f \in FileNames :
                (Analyze(r, t, f) /\ adminSettings.ragEnabled) =>
                    /\ reqs'[r].pc = "generate"
                    /\ reqs'[r].relevantContext = <<>>
                    /\ lastEmbed' = lastEmbed
                    /\ systemStats'.ragQueries = systemStats.ragQueries]_vars

\* C10 witness: a search on the empty store has been answered with no match
\* and without an embedding.
C10_Witness ==
    /\ resp.op = "search" /\ resp.status = 200 /\ resp.count = 0
    /\ lastQuery.store = <<>> /\ ~lastQuery.embedded
    /\ documentStore = <<>>

\* the chunks of store whose embedding has a length other than that of the
\* query embedding are left out
RECURSIVE WithoutMismatched(_, _)
WithoutMismatched(store, queryEmbedding) ==
    IF store = <<>> THEN <<>>
    ELSE LET doc  == Head(store)
             rest == WithoutMismatched(Tail(store), queryEmbedding)
         IN  IF /\ doc.embedding.kind = "vector" /\ queryEmbedding.kind = "vector"
                /\ Len(doc.embedding.vals) # Len(queryEmbedding.vals)
             THEN rest ELSE <<doc>> \o rest

\* C11: chunks whose embedding has another length than the query embedding
\* do not disturb the ranking: the query returns what it would return on the
\* store without them (the thresholds of the model are all >= 0).
C11_MismatchCountsAsZero ==
    lastQuery.embedded =>
        /\ ~Gt(Zero, lastQuery.threshold)
        /\ lastQuery.result =
              retrieveRelevantContext(
                  WithoutMismatched(lastQuery.store, lastQuery.queryEmbedding),
                  lastQuery.queryEmbedding, lastQuery.threshold, lastQuery.limit)

\* C11 witness: a query has scored a store that holds chunks of its own
\* embedding length and chunks of another length, and has returned chunks.
C11_Witness ==
    /\ lastQuery.embedded
    /\ lastQuery.result # <<>>
    /\ Len(WithoutMismatched(lastQuery.store, lastQuery.queryEmbedding))
          < Len(lastQuery.store)


\* one of the settings states the request has seen has all the values it read
ReadsOneState(a) ==
    a.used = {} \/ \E st \in a.seen : \A u \in a.used : st[u[1]] = u[2]

\* C12: the settings values an analysis reads (ragEnabled, similarityThreshold,
\* enabled) are all the values of one settings state that existed while the
\* analysis ran.
C12_AnalyzeReadsOneSettingsState ==
    /\ ReadsOneState(lastAnalysis)
    /\ \A r \in Reqs : reqs[r].op = "analyze" => ReadsOneState(reqs[r])

\* a step of one of the administrative settings operations
SettingsOperation ==
    \/ \E b \in RagBodies : RagSettings(b)
    \/ \E b \in ApiBodies : UpdateApiSettings(b)
    \/ \E p \in Prompts : UpdatePrompt(p)

\* C13: adminSettings and ragSettings change only in steps of rag-settings,
\* update-api-settings and update-prompt; every step of every other operation
\* leaves both unchanged.
C13_OnlySettingsOperationsWriteSettings ==
    [][(adminSettings' # adminSettings \/ ragSettings' # ragSettings)
          => SettingsOperation]_vars

\* C13 witness: an analysis has run to its answer, re-indexing its output,
\* and the settings are those of the start.
C13_Witness ==
    /\ resp.op = "analyze" /\ resp.status = 200
    /\ \E i \in DOMAIN documentStore : documentStore[i].category = "generated-analysis"
    /\ adminSettings = [ragEnabled |-> TRUE, similarityThreshold |-> Sim(1, 49, 100),
                        maxTrainingExamples |-> 5, systemPrompt |-> "default"]
    /\ ragSettings = [enabled |-> TRUE, mode |-> "learning",
                      similarityThreshold |-> Sim(1, 49, 100), maxExamples |-> 5]

\* the value a field has after a merge of an optional request field
Merged(field, old) == IF field.present THEN field.val ELSE old

\* C14: a settings update gives every field present in the request the
\* supplied value, falsy values included, and leaves every absent field as it
\* was; for rag-settings and for update-api-settings.
C14_PresentFieldsOverwrite ==
    [][/\ \A b \in RagBodies : RagSettings(b) =>
             /\ ragSettings'.enabled = Merged(b.enabled, ragSettings.enabled)
             /\ ragSettings'.mode = Merged(b.mode, ragSettings.mode)
             /\ ragSettings'.similarityThreshold =
                    Merged(b.similarityThreshold, ragSettings.similarityThreshold)
             /\ ragSettings'.maxExamples = Merged(b.maxExamples, ragSettings.maxExamples)
       /\ \A b \in ApiBodies : UpdateApiSettings(b) =>
             /\ adminSettings'.ragEnabled = Merged(b.ragEnabled, adminSettings.ragEnabled)
             /\ adminSettings'.similarityThreshold =
                    Merged(b.similarityThreshold, adminSettings.similarityThreshold)
             /\ adminSettings'.maxTrainingExamples =
                    Merged(b.maxTrainingExamples, adminSettings.maxTrainingExamples)]_vars

\* the operating modes
Modes == {"disabled", "learning", "retrieval", "finetuned"}

\* C15: ragSettings.mode is always one of the four operating modes.
C15_ModeIsOneOfFour == ragSettings.mode \in Modes

\* C16: ragSettings.mode changes only in a step of rag-settings; a step that
\* records a learning sample leaves the mode as it is, also when it brings
\* queryCount to targetQueries or beyond.
C16_ModeChangesOnlyByRagSettings ==
    [][/\ ragSettings'.mode # ragSettings.mode => \E b \in RagBodies : RagSettings(b)
       /\ learningData'.queryCount # learningData.queryCount
             => ragSettings'.mode = ragSettings.mode]_vars

\* C16 witness: the target has been reached, the progress report says ready,
\* and the mode is still 'learning'.
C16_Witness ==
    /\ resp.op = "progress" /\ resp.readyForFineTuning
    /\ learningData.queryCount = targetQueries
    /\ Len(conversationMemory) = 1
    /\ ragSettings.mode = "learning"

\* the generation call of the analysis in slot r is answered while the mode
\* is 'learning': the step records a learning sample
Records(r, outcome) ==
    /\ reqs[r].op = "analyze" /\ reqs[r].pc = "generate"
    /\ outcome.type # "error"
    /\ ragSettings.mode = "learning"
    /\ Resume(r, outcome)

\* C17: the learning buffer only grows, one entry at a time: every recording
\* adds 1 to queryCount and appends one entry to queries, below, at and beyond
\* targetQueries, and no step removes, reorders or changes an entry or lowers
\* queryCount.
C17_LearningBufferAppendOnly ==
    [][/\ learningData'.queryCount >= learningData.queryCount
       /\ Len(learningData'.queries) >= Len(learningData.queries)
       /\ SubSeq(learningData'.queries, 1, Len(learningData.queries))
             = learningData.queries
       /\ Len(learningData'.queries) - Len(learningData.queries)
             = learningData'.queryCount - learningData.queryCount
       /\ learningData'.queryCount - learningData.queryCount <= 1
       /\ \A r \in Reqs : \A o \in GenerationOutcomes :
             Records(r, o) => learningData'.queryCount = learningData.queryCount + 1]_vars

\* C17 witness: a sample has been recorded beyond the target, after which
\* the training data has been cleared, and the buffer holds every sample.
C17_Witness ==
    /\ learningData.queryCount = targetQueries + 1
    /\ Len(learningData.queries) = targetQueries + 1
    /\ resp.op = "clear"

\* min(100, round(N / 50 * 100))
CappedPercent(N) ==
    LET rounded == (2 * N * 100 + 50) \div (2 * 50)
    IN  IF rounded < 100 THEN rounded ELSE 100

\* C18: for N recorded samples the progress report says
\* progressPercent = min(100, round(N/50*100)), at most 100, and
\* readyForFineTuning exactly when N >= 50.
C18_ProgressReport ==
    resp.op = "progress" =>
        /\ resp.count = learningData.queryCount
        /\ resp.progressPercent = CappedPercent(resp.count)
        /\ resp.progressPercent <= 100
        /\ resp.readyForFineTuning = (resp.count >= 50)

\* C18 witness: the progress has been reported for 51 samples, as 100 percent
\* and ready.
C18_Witness ==
    /\ resp.op = "progress" /\ resp.count = 51
    /\ resp.progressPercent = 100 /\ resp.readyForFineTuning

\* the step sends the response of a request: a handler runs from its start
\* to its response, or a suspended handler runs to its response
Answers ==
    \/ calls' = calls + 1 /\ reqs' = reqs
    \/ \E r \in Reqs : reqs[r].op # "idle" /\ reqs'[r].op = "idle"

\* C19: a step that answers an upload-training, upload-training-vectorize,
\* delete or analyze request with an error leaves trainingExamples,
\* documentStore and learningData as they were, and the request has not
\* changed them in an earlier step (it is not past a processDocument call
\* made after its push or its recording).
C19_FailedRequestChangesNothing ==
    [][(/\ Answers
        /\ resp'.op \in {"upload", "vectorize", "delete", "analyze"}
        /\ resp'.status >= 400)
          => /\ trainingExamples' = trainingExamples
             /\ documentStore' = documentStore
             /\ learningData' = learningData
             /\ \A r \in Reqs :
                   (reqs[r].op # "idle" /\ reqs'[r].op = "idle") => reqs[r].pc # "embed"]_vars

\* C20: a training upload answered with success while RAG is enabled has
\* put at least one chunk into the store.
C20_UploadWithRagMakesChunks ==
    [][/\ \A r \in Reqs : \A t \in Texts : \A f \in FileNames :
          (/\ UploadTraining(r, t, f)
           /\ adminSettings.ragEnabled
           /\ Answers /\ resp'.status = 200)
             => /\ resp'.count >= 1
                /\ Len(documentStore') >= Len(documentStore) + 1
       /\ \A r \in Reqs :
             (/\ reqs[r].op = "upload" /\ reqs[r].pc = "embed"
              /\ reqs'[r].op = "idle" /\ resp'.status = 200)
                => /\ resp'.count >= 1
                   /\ Len(documentStore') >= Len(documentStore) + 1]_vars

C22_ClearEmptiesAll ==
    [][ClearTraining =>
          /\ trainingExamples' = <<>>
          /\ documentStore' = <<>>
          /\ conversationMemory' = <<>>
          /\ resp'.count = Len(trainingExamples)
          /\ resp'.previousChunks = Len(documentStore)]_vars

\* C22 witness: a clear has been answered that emptied a registry of one
\* example and a store of three chunks.
C22_Witness ==
    /\ resp.op = "clear" /\ resp.count = 1 /\ resp.previousChunks = 3
    /\ trainingExamples = <<>> /\ documentStore = <<>> /\ conversationMemory = <<>>

\* C29: the step in which a query scores the store leaves documentStore as
\* it is, every chunk the query returns carries a similarity, and no chunk in
\* the store ever does.
C29_QueryLeavesStore ==
    [][/\ \A i \in DOMAIN documentStore' :
             "similarity" \notin DOMAIN documentStore'[i]
       /\ (lastQuery' # lastQuery \/ systemStats'.ragQueries # systemStats.ragQueries)
             => /\ documentStore' = documentStore
                /\ lastQuery'.store = documentStore
                /\ \A j \in DOMAIN lastQuery'.result :
                      "similarity" \in DOMAIN lastQuery'.result[j]]_vars

\* C29 witness: a query has scored a non-empty store and returned chunks, and
\* the store is still the one it scored.
C29_Witness ==
    /\ lastQuery.embedded /\ ~lastQuery.threw
    /\ lastQuery.result # <<>>
    /\ documentStore = lastQuery.store

\* splitIntoChunks has returned
Chunked == probe.fn = "splitIntoChunks" /\ probe.done

\* the words of a sequence of strings, in order
RECURSIVE WordsOf(_)
WordsOf(strings) ==
    IF strings = <<>> THEN <<>> ELSE Head(strings).words \o WordsOf(Tail(strings))

\* C23: splitIntoChunks returns no chunk that is empty or whitespace-only,
\* and a text without a non-blank sentence yields no chunk at all.
C23_NoEmptyChunk ==
    Chunked =>
        /\ \A i \in DOMAIN probe.result :
              probe.result[i].len > 0 /\ TrimLen(probe.result[i]) > 0
        /\ (\A i \in DOMAIN probe.args.text : probe.args.text[i].words = <<>>)
              => probe.result = <<>>

\* C23 witness: a text with a blank and a non-blank sentence has been split
\* with maxChunkSize 0, where every sentence closes the chunk before it.
C23_Witness ==
    /\ Chunked /\ probe.args.maxChunkSize = 0
    /\ \E i, j \in DOMAIN probe.args.text :
          probe.args.text[i].words = <<>> /\ probe.args.text[j].words # <<>>
    /\ probe.result # <<>>

\* C24: the sentences in the chunks, read in chunk order, are the non-blank
\* sentences of the text in their order: none lost, duplicated or reordered.
C24_SentencesPreserved ==
    Chunked => WordsOf(probe.result) = WordsOf(probe.args.text)

\* C24 witness: three sentences have been split into a closed chunk and a
\* trailing chunk that is below maxChunkSize.
C24_Witness ==
    /\ Chunked /\ Len(WordsOf(probe.args.text)) = 3
    /\ Len(probe.result) = 2
    /\ probe.result[2].len < probe.args.maxChunkSize

\* C25: every chunk that contains two or more sentences is shorter than
\* maxChunkSize characters.
C25_MergedChunkBelowSize ==
    Chunked =>
        \A i \in DOMAIN probe.result :
            Len(probe.result[i].words) >= 2 => probe.result[i].len < probe.args.maxChunkSize

\* C26: a non-blank sentence of at least maxChunkSize characters is a chunk
\* by itself: the sentence without its leading whitespace, and the '.'.
C26_LongSentenceAlone ==
    Chunked =>
        \A i \in DOMAIN probe.args.text :
            LET sentence == probe.args.text[i] IN
            (sentence.words # <<>> /\ sentence.len >= probe.args.maxChunkSize)
              => \E j \in DOMAIN probe.result :
                    /\ probe.result[j].words = sentence.words
                    /\ probe.result[j].len = sentence.len - sentence.lead + 1

\* C26 witness: a sentence of 6 characters between two shorter ones has been
\* split with maxChunkSize 6, which the chunk before it is below, and three
\* chunks came out.
C26_Witness ==
    /\ Chunked /\ probe.args.maxChunkSize = 6
    /\ Len(probe.args.text) = 3
    /\ probe.args.text[1].len = 3 /\ probe.args.text[2].len = 6
    /\ probe.args.text[3].len = 3
    /\ Len(probe.result) = 3

\* C27: the keyword vector of every text has 24 entries, and entry k is
\* that of the k-th vocabulary keyword: it counts an occurrence exactly when
\* that keyword occurs in the text.
C27_OneEntryPerKeyword ==
    (probe.fn = "generateKeywordVector" /\ probe.done) =>
        /\ probe.result.kind = "vector"
        /\ DOMAIN probe.result.vals = 1..24
        /\ \A k \in 1..24 :
              probe.result.vals[k] > 0
                <=> \E i \in DOMAIN probe.args.text.words :
                       probe.args.text.words[i] = keywords[k]

\* C27 witness: the keyword vector of the empty text has been computed (its
\* entries are 0 / 0 * 1000).
C27_Witness ==
    /\ probe.fn = "generateKeywordVector" /\ probe.done
    /\ probe.args.text.len = 0
    /\ probe.result.den = 0

\* position of the first occurrence of token in text
FirstOccurrence(text, token) ==
    CHOOSE i \in DOMAIN text : text[i] = token /\ \A j \in 1..(i - 1) : text[j] # token

\* the part of C30 that does not depend on the order of ties: at most 10
\* tokens of the text, distinct, longer than 3 characters, by descending count
KeywordsRanked(text, result) ==
    /\ Len(result) <= 10
    /\ \A i \in DOMAIN result :
          /\ result[i].length > 3
          /\ \E j \in DOMAIN text : text[j] = result[i]
    /\ \A i, j \in DOMAIN result :
          i < j => /\ result[i] # result[j]
                   /\ WordCount(text, result[i]) >= WordCount(text, result[j])

\* C30: extractKeywords returns at most 10 distinct tokens longer than 3
\* characters by descending frequency, and tokens of equal frequency in the
\* order of their first occurrence in the text.
C30_TiesInTextOrder ==
    (probe.fn = "extractKeywords" /\ probe.done) =>
        /\ KeywordsRanked(probe.args.text, probe.result)
        /\ \A i, j \in DOMAIN probe.result :
              (i < j /\ WordCount(probe.args.text, probe.result[i])
                          = WordCount(probe.args.text, probe.result[j]))
                => FirstOccurrence(probe.args.text, probe.result[i])
                     < FirstOccurrence(probe.args.text, probe.result[j])

\* the doubles 1 and -1
One == Double(1, Pow2(52), -52)
MinusOne == Double(-1, Pow2(52), -52)

IsZeroVector(v) == \A i \in DOMAIN v : v[i] = 0
Negated(v) == [i \in DOMAIN v |-> -v[i]]

\* calculateSimilarity gives the same value with its arguments exchanged
SimilaritySymmetric ==
    (probe.fn = "calculateSimilarity" /\ probe.done) =>
        probe.result = calculateSimilarityDouble(probe.args.vector2, probe.args.vector1)

\* C28: calculateSimilarity(a, b) equals calculateSimilarity(b, a), for a
\* non-zero v the similarity of v with itself is 1, and with -v it is -1.
C28_SymmetricAndUnit ==
    /\ SimilaritySymmetric
    /\ (probe.fn = "calculateSimilarity" /\ probe.done
          /\ ~IsZeroVector(probe.args.vector1))
         => /\ probe.args.vector2 = probe.args.vector1 => probe.result = One
            /\ probe.args.vector2 = Negated(probe.args.vector1) => probe.result = MinusOne

\* the requests that take a step: the slots that change, or, when no slot
\* changes, a request that is received and answered in one step
Stepping == {r \in Reqs : reqs'[r] # reqs[r]}

\* C31: a request that starts while RAG is disabled adds no chunk to the
\* store: a step that makes the store longer is not the step of a request
\* that started with RAG off.
C31_NoChunkWhileRagOff ==
    [][Len(documentStore') > Len(documentStore) =>
          IF Stepping = {} THEN ~RagOff(World)
          ELSE \A r \in Stepping :
                  IF reqs[r].op = "idle" THEN ~RagOff(World) ELSE ~reqs[r].ragOff]_vars

\* C32: ragSettings and adminSettings agree on the enabled flag, the
\* similarity threshold and the number of examples.
C32_SettingsAgree ==
    /\ ragSettings.enabled = adminSettings.ragEnabled
    /\ ragSettings.similarityThreshold = adminSettings.similarityThreshold
    /\ ragSettings.maxExamples = adminSettings.maxTrainingExamples

\* C36: the example count of the learning data is the number of training
\* examples in the registry.
C36_ExampleCountIsRegistrySize ==
    learningData.exampleCount = Len(trainingExamples)

\* a step in which a vector search is answered: it scores, and the request
\* that steps is finished
SearchAnswered ==
    /\ resp'.op = "search" /\ resp'.status = 200
    /\ lastQuery' # lastQuery
    /\ \A r \in Stepping : reqs'[r].op = "idle"

\* the stored chunks whose similarity to the query of retrieval q is above
\* threshold
Exceeding(q, threshold) ==
    { i \in 1..Len(q.store) :
        q.embedded
        /\ Gt(calculateSimilarity(q.queryEmbedding, q.store[i].embedding), threshold) }

\* C33: in the answer of a vector search every match has a similarity above
\* the threshold that the answer reports, and the matches are as many as the
\* stored chunks above that threshold, up to maxResults.
C33_MatchesAboveReportedThreshold ==
    [][SearchAnswered =>
          /\ \A i \in DOMAIN resp'.similarities :
                Gt(resp'.similarities[i], resp'.threshold)
          /\ LET n == Cardinality(Exceeding(lastQuery', resp'.threshold))
             IN  resp'.count = IF n < lastQuery'.limit THEN n ELSE lastQuery'.limit]_vars

\* C35: when the scoring of a stored chunk throws, the retrieval returns the
\* empty sequence and its caller goes on without context: the search answers
\* 200 with no match, analyze and chat proceed to the generation call.
C35_ScoringErrorGivesNoContext ==
    [][(lastQuery' # lastQuery /\ lastQuery'.threw) =>
          /\ lastQuery'.result = <<>>
          /\ \/ /\ \A r \in Stepping : reqs'[r].op = "idle"
                /\ resp'.op = "search" /\ resp'.status = 200 /\ resp'.count = 0
             \/ \E r \in Stepping :
                   /\ reqs'[r].op \in {"analyze", "chat"}
                   /\ reqs'[r].pc = "generate"
                   /\ reqs'[r].relevantContext = <<>>]_vars

\* C35 witness: a search whose scoring threw, on a store that holds a chunk
\* the query matches, has been answered with no match.
C35_Witness ==
    /\ lastQuery.threw
    /\ resp.op = "search" /\ resp.status = 200 /\ resp.count = 0
    /\ RelevantDocs(lastQuery.store, lastQuery.queryEmbedding, lastQuery.threshold,
                    lastQuery.limit) # <<>>

\* request r is an analysis waiting for its generation call
Generating(r) == reqs[r].op = "analyze" /\ reqs[r].pc = "generate"

\* C37: an analysis whose generation call fails is answered 500 and leaves
\* the learning data and the store as they are. Chunks of generated output
\* enter the store only from the successful return of the generation call
\* on, the learning record being taken in the step of that return; when the
\* indexing then fails at once the record stays and no chunk is stored.
C37_FailedGenerationLeavesNoTrace ==
    [][/\ \A r \in Reqs :
            (Generating(r) /\ Resume(r, [type |-> "error", vec |-> <<>>])) =>
                /\ learningData' = learningData
                /\ documentStore' = documentStore
                /\ resp'.op = "analyze" /\ resp'.status = 500
       /\ (/\ Len(documentStore') > Len(documentStore)
           /\ documentStore'[Len(documentStore')].category = "generated-analysis") =>
              \E r \in Stepping :
                 /\ reqs[r].op = "analyze"
                 /\ \/ reqs[r].pc = "embed"
                    \/ /\ reqs[r].pc = "generate"
                       /\ ragSettings.mode = "learning" =>
                              learningData'.queryCount = learningData.queryCount + 1
       /\ \A r \in Reqs :
            (/\ Generating(r) /\ Resume(r, [type |-> "notext", vec |-> <<>>])
             /\ ragSettings.mode = "learning" /\ ragSettings.enabled) =>
                /\ learningData'.queryCount = learningData.queryCount + 1
                /\ documentStore' = documentStore]_vars

\* C37 witness: in learning mode with RAG enabled, on a store that holds
\* chunks, an analysis has been answered 500 after its generation call
\* failed, and no sample has been recorded.
C37_Witness ==
    /\ resp.op = "analyze" /\ resp.status = 500
    /\ failures = 1
    /\ ragSettings.mode = "learning" /\ ragSettings.enabled
    /\ learningData.queryCount \in PriorAnalyses
    /\ documentStore # <<>>
    /\ \A i \in DOMAIN documentStore : documentStore[i].category # "generated-analysis"

\* the step records one sample for request r: the count goes up by one and
\* the buffer gets one more entry, whose ragUsed tells whether the retrieval
\* of r returned a chunk
RecordsFor(r) ==
    /\ learningData'.queryCount = learningData.queryCount + 1
    /\ Len(learningData'.queries) = Len(learningData.queries) + 1
    /\ SubSeq(learningData'.queries, 1, Len(learningData.queries)) = learningData.queries
    /\ LET sample == learningData'.queries[Len(learningData'.queries)]
       IN  /\ sample.query = reqs[r].content
           /\ sample.ragUsed = (reqs[r].relevantContext # <<>>)

\* queryCount and the queries buffer
Samples == <<learningData.queryCount, learningData.queries>>

Unscored(queryEmbedding, doc) ==
    calculateSimilarity(queryEmbedding, doc.embedding).kind = "NaN"

\* the store without the chunks whose similarity to the query is not a number
RECURSIVE Scorable(_, _)
Scorable(store, queryEmbedding) ==
    IF store = <<>> THEN <<>>
    ELSE IF Unscored(queryEmbedding, Head(store))
         THEN Scorable(Tail(store), queryEmbedding)
         ELSE <<Head(store)>> \o Scorable(Tail(store), queryEmbedding)

\* C34: every chunk a query returns has a similarity that is a number above
\* the threshold, and the result is what the query returns on the store
\* without the chunks whose similarity is 0/0: they are never returned and
\* never change which other chunks are returned, nor their order.
C34_UndefinedSimilarityLeftOut ==
    (probe.fn = "retrieveRelevantContext" /\ probe.done) =>
        /\ \A k \in DOMAIN probe.result :
              /\ probe.result[k].similarity.kind = "num"
              /\ Gt(probe.result[k].similarity, probe.args.threshold)
        /\ probe.result =
              retrieveRelevantContext(Scorable(probe.args.store, probe.args.queryEmbedding),
                                      probe.args.queryEmbedding, probe.args.threshold,
                                      probe.args.limit)

\* C34 witness: a query has returned two chunks from a store whose first
\* chunk has the zero vector as embedding.
C34_Witness ==
    /\ probe.fn = "retrieveRelevantContext" /\ probe.done
    /\ Len(probe.result) = 2
    /\ Unscored(probe.args.queryEmbedding, probe.args.store[1])

\* C39: activeUsers is within 0..100, and it is 0 whenever no decrement
\* timer is pending.
C39_ActiveUsersBounded ==
    /\ systemStats.activeUsers \in 0..100
    /\ timers = 0 => systemStats.activeUsers = 0

\* C39 witness: more than 100 tracked requests have their timer pending and
\* the counter stands at the cap.
C39_Witness == timers > 100 /\ systemStats.activeUsers = 100

====
